---- MODULE Spec2Model ----
(***************************************************************************)
(* Model of @nan0web/db-fs: the DBFS document store (src/src/FS.js, class  *)
(* DBFS) on top of a native filesystem, with the format codecs of          *)
(* src/src/file-system.                                                    *)
(*                                                                         *)
(* Strings are sequences of one-character strings, so that the operations  *)
(* the code performs on them (split, startsWith, slice, concatenation,     *)
(* parsing) are computed and not assumed.  A native path is the sequence   *)
(* of its segments below the OS root ("/" is the empty sequence).          *)
(***************************************************************************)
EXTENDS Integers, Sequences, FiniteSets, TLC

VARIABLES
    cwd,     \* DB.cwd, a string
    root,    \* DB.root, a string
    fs,      \* the native filesystem: native path -> node
    meta,    \* DB.meta: Map<string, DocumentStat>
    data,    \* DB.data: Map<string, any>
    last,    \* the call that ran last: arguments, outcome and native calls
    hist,    \* the calls so far, in the runs that record them
    running  \* the calls in flight, in the runs where calls overlap

vars == <<cwd, root, fs, meta, data, last, hist, running>>

----------------------------------------------------------------------------
(* Strings *)

SLASH == "/"
DOT == <<".">>
DOTDOT == <<".", ".">>

StartsWith(s, p) == Len(s) >= Len(p) /\ SubSeq(s, 1, Len(p)) = p

EndsWith(s, p) == Len(s) >= Len(p) /\ SubSeq(s, Len(s) - Len(p) + 1, Len(s)) = p

\* s.slice(n)
Slice(s, n) == SubSeq(s, n + 1, Len(s))

RECURSIVE SplitAcc(_, _, _)
SplitAcc(s, c, cur) ==
    IF s = <<>> THEN <<cur>>
    ELSE IF Head(s) = c THEN <<cur>> \o SplitAcc(Tail(s), c, <<>>)
    ELSE SplitAcc(Tail(s), c, Append(cur, Head(s)))

\* s.split(c)
Split(s, c) == SplitAcc(s, c, <<>>)

RECURSIVE Join(_, _)
\* parts.join(c)
Join(parts, c) ==
    IF parts = <<>> THEN <<>>
    ELSE IF Len(parts) = 1 THEN parts[1]
    ELSE parts[1] \o c \o Join(Tail(parts), c)

RECURSIVE LastIndexOf(_, _)
\* s.lastIndexOf(c), 1-based, 0 when absent
LastIndexOf(s, c) ==
    IF s = <<>> THEN 0
    ELSE IF s[Len(s)] = c THEN Len(s)
    ELSE LastIndexOf(SubSeq(s, 1, Len(s) - 1), c)

----------------------------------------------------------------------------
(* node:path resolve, as used through FS.resolve *)

\* the directory the process runs in
ProcessCwd == <<"/", "p">>

RECURSIVE NativeNormalize(_, _)
\* the segments of an absolute path: "", "." dropped, ".." pops and stops at "/"
NativeNormalize(segs, acc) ==
    IF segs = <<>> THEN acc
    ELSE LET s == Head(segs) IN
         IF s = <<>> \/ s = DOT THEN NativeNormalize(Tail(segs), acc)
         ELSE IF s = DOTDOT
              THEN NativeNormalize(Tail(segs),
                       IF acc = <<>> THEN acc ELSE SubSeq(acc, 1, Len(acc) - 1))
              ELSE NativeNormalize(Tail(segs), Append(acc, s))

RECURSIVE ResolveJoin(_, _)
\* right to left: prepend arguments until the path is absolute
ResolveJoin(args, acc) ==
    IF StartsWith(acc, <<SLASH>>) THEN acc
    ELSE IF args = <<>> THEN ProcessCwd \o <<SLASH>> \o acc
    ELSE LET a == args[Len(args)] IN
         ResolveJoin(SubSeq(args, 1, Len(args) - 1),
                     IF a = <<>> THEN acc ELSE a \o <<SLASH>> \o acc)

\* FS.resolve(...args): an absolute native path, as its sequence of segments
FSresolve(args) == NativeNormalize(Split(ResolveJoin(args, <<>>), SLASH), <<>>)

\* is native path p the directory d or a path below it
Inside(p, d) == Len(p) >= Len(d) /\ SubSeq(p, 1, Len(d)) = d

ParentOf(p) == SubSeq(p, 1, Len(p) - 1)

----------------------------------------------------------------------------
(* URI utilities of the base class DB (package @nan0web/db).  Their code   *)
(* is not part of this repository's sources; they follow spec.md 4.1 and   *)
(* the expectations of src/src/DB.path.test.js, DBFS.path.test.js and      *)
(* FSclass.test.js.                                                        *)

RECURSIVE UriSegmentsUnclamped(_, _)
\* ".." kept when there is nothing to pop
UriSegmentsUnclamped(segs, acc) ==
    IF segs = <<>> THEN acc
    ELSE IF Head(segs) = <<>> \/ Head(segs) = DOT THEN UriSegmentsUnclamped(Tail(segs), acc)
    ELSE IF Head(segs) = DOTDOT /\ acc # <<>> /\ acc[Len(acc)] # DOTDOT
    THEN UriSegmentsUnclamped(Tail(segs), SubSeq(acc, 1, Len(acc) - 1))
    ELSE UriSegmentsUnclamped(Tail(segs), Append(acc, Head(segs)))

RECURSIVE UriSegments(_, _)
\* "" and "." dropped; ".." pops and saturates at the root
UriSegments(segs, acc) ==
    IF segs = <<>> THEN acc
    ELSE LET s == Head(segs) IN
         IF s = <<>> \/ s = DOT THEN UriSegments(Tail(segs), acc)
         ELSE IF s = DOTDOT
              THEN UriSegments(Tail(segs),
                       IF acc = <<>> THEN acc ELSE SubSeq(acc, 1, Len(acc) - 1))
              ELSE UriSegments(Tail(segs), Append(acc, s))

\* a URI text that marks every path as a directory
UriTextAlwaysDir(segs, isDir) ==
    IF segs = <<>> THEN DOT ELSE Join(segs, <<SLASH>>) \o <<SLASH>>

\* the normalized segments as a URI: "." when none is left, a trailing "/"
\* for a directory URI
UriText(segs, isDir) ==
    IF segs = <<>> THEN DOT
    ELSE Join(segs, <<SLASH>>) \o (IF isDir THEN <<SLASH>> ELSE <<>>)

\* DB.normalize(...args)
normalize(args) ==
    UriText(UriSegments(Split(Join(args, <<SLASH>>), SLASH), <<>>),
            args # <<>> /\ EndsWith(args[Len(args)], <<SLASH>>))

RECURSIVE FromLastAbsolute(_)
\* the arguments from the last one that starts with "/" on
FromLastAbsolute(args) ==
    IF args = <<>> THEN <<>>
    ELSE IF \E i \in 2..Len(args) : StartsWith(args[i], <<SLASH>>)
         THEN FromLastAbsolute(Tail(args))
         ELSE args

\* DB.resolveSync(...args) and DB.resolve(...args): an argument that starts
\* with "/" restarts the path; the result keeps a leading "/" when the last
\* argument has one
resolveSync(args) ==
    IF args # <<>> /\ StartsWith(args[Len(args)], <<SLASH>>)
    THEN <<SLASH>> \o normalize(FromLastAbsolute(args))
    ELSE normalize(FromLastAbsolute(args))

Lower(c) ==
    CASE c = "T" -> "t"
      [] c = "X" -> "x"
      [] c = "J" -> "j"
      [] OTHER -> c

\* the extension of a file name: from its last dot at i, unless the name
\* starts with that dot or has none
ExtOf(name, i) == IF i <= 1 THEN <<>> ELSE SubSeq(name, i, Len(name))

LastPart(parts) == parts[Len(parts)]

\* DB.extname(uri): lowercased, with the dot; "" for directories and dotfiles
extname(uri) ==
    [k \in DOMAIN ExtOf(LastPart(Split(uri, SLASH)),
                        LastIndexOf(LastPart(Split(uri, SLASH)), ".")) |->
        Lower(ExtOf(LastPart(Split(uri, SLASH)),
                    LastIndexOf(LastPart(Split(uri, SLASH)), "."))[k])]

Levels == {"r", "w", "d"}

\* DB.ensureAccess(uri, level): TRUE when it returns, FALSE when it throws
DBensureAccess(uri, level) == level \in Levels

----------------------------------------------------------------------------
(* The native filesystem (node:fs, through the static methods of FS) *)

Dir == [kind |-> "dir"]
File(text) == [kind |-> "file", content |-> text]

existsSync(f, p) == p \in DOMAIN f
IsDir(f, p) == p \in DOMAIN f /\ f[p].kind = "dir"
IsFile(f, p) == p \in DOMAIN f /\ f[p].kind = "file"

Prefixes(p) == {SubSeq(p, 1, n) : n \in 0..Len(p)}

Children(f, p) == {q \in DOMAIN f : Len(q) = Len(p) + 1 /\ ParentOf(q) = p}

\* mkdirSync(p, {recursive: true}) throws when a component is a file
MkdirOk(f, p) == \A q \in Prefixes(p) : q \in DOMAIN f => f[q].kind = "dir"
Mkdir(f, p) == [q \in (DOMAIN f) \cup Prefixes(p) |-> IF q \in DOMAIN f THEN f[q] ELSE Dir]

\* writeFileSync(p, text) and appendFileSync(p, text) need the parent
\* directory and throw on a directory
WriteOk(f, p) == p # <<>> /\ IsDir(f, ParentOf(p)) /\ ~IsDir(f, p)
WriteFile(f, p, text) == [q \in (DOMAIN f) \cup {p} |-> IF q = p THEN File(text) ELSE f[q]]
AppendFile(f, p, text) ==
    [q \in (DOMAIN f) \cup {p} |->
        IF q = p THEN File((IF IsFile(f, p) THEN f[p].content ELSE <<>>) \o text)
        ELSE f[q]]

\* unlinkSync(p) throws unless p is a file
UnlinkOk(f, p) == IsFile(f, p)
\* rmdirSync(p) throws unless p is an empty directory
RmdirOk(f, p) == IsDir(f, p) /\ Children(f, p) = {} /\ p # <<>>
Remove(f, p) == [q \in (DOMAIN f) \ {p} |-> f[q]]

\* readFileSync(p) throws unless p is a file
ReadOk(f, p) == IsFile(f, p)

\* DocumentStat (package @nan0web/db); exists is false for a stat that
\* carries only an error
NoStat(err) == [exists |-> FALSE, isFile |-> FALSE, isDirectory |-> FALSE,
                size |-> 0, error |-> err]

\* DBFS.createDocumentStatFrom(FS.statSync(p))
createDocumentStatFrom(f, p) ==
    [exists |-> TRUE, isFile |-> f[p].kind = "file", isDirectory |-> f[p].kind = "dir",
     size |-> IF f[p].kind = "file" THEN Len(f[p].content) ELSE 0, error |-> "none"]

----------------------------------------------------------------------------
(* Documents: JSON values, tagged *)

Null == [t |-> "null"]
Bool(b) == [t |-> "bool", b |-> b]
Num(n) == [t |-> "num", n |-> n]
Str(s) == [t |-> "str", s |-> s]
Arr(items) == [t |-> "arr", items |-> items]
\* an object is the sequence of its <<key, value>> members
Obj(kv) == [t |-> "obj", kv |-> kv]

Digits == <<"0", "1", "2", "3", "4", "5", "6", "7", "8", "9">>
IsDigit(c) == \E i \in DOMAIN Digits : Digits[i] = c
DigitVal(c) == (CHOOSE i \in DOMAIN Digits : Digits[i] = c) - 1

RECURSIVE NumText(_)
NumText(n) ==
    IF n < Len(Digits) THEN <<Digits[n + 1]>>
    ELSE NumText(n \div Len(Digits)) \o <<Digits[(n % Len(Digits)) + 1]>>

QUOTE == "\""
NL == "\n"
SP == " "
INDENT == <<SP, SP>>
TEXT_NULL == <<"n", "u", "l", "l">>
TEXT_TRUE == <<"t", "r", "u", "e">>
TEXT_FALSE == <<"f", "a", "l", "s", "e">>

\* JSON.stringify of a number, string, boolean or null
PrimText(v) ==
    CASE v.t = "null" -> TEXT_NULL
      [] v.t = "bool" -> IF v.b THEN TEXT_TRUE ELSE TEXT_FALSE
      [] v.t = "num" -> NumText(v.n)
      [] v.t = "str" -> <<QUOTE>> \o v.s \o <<QUOTE>>

RECURSIVE JoinLines(_)
JoinLines(lines) ==
    IF lines = <<>> THEN <<>>
    ELSE IF Len(lines) = 1 THEN INDENT \o lines[1]
    ELSE INDENT \o lines[1] \o <<",", NL>> \o JoinLines(Tail(lines))

\* toJSON(data, null, 2): JSON.stringify with an indentation of two spaces;
\* the members of an object or array are numbers, strings, booleans or null
toJSON(v) ==
    CASE v.t = "obj" ->
            IF v.kv = <<>> THEN <<"{", "}">>
            ELSE <<"{", NL>>
                 \o JoinLines([i \in 1..Len(v.kv) |->
                        <<QUOTE>> \o v.kv[i][1] \o <<QUOTE, ":", SP>> \o PrimText(v.kv[i][2])])
                 \o <<NL, "}">>
      [] v.t = "arr" ->
            IF v.items = <<>> THEN <<"[", "]">>
            ELSE <<"[", NL>>
                 \o JoinLines([i \in 1..Len(v.items) |-> PrimText(v.items[i])])
                 \o <<NL, "]">>
      [] OTHER -> PrimText(v)

IsWs(c) == c = SP \/ c = NL

RECURSIVE SkipWs(_)
SkipWs(s) == IF s # <<>> /\ IsWs(Head(s)) THEN SkipWs(Tail(s)) ELSE s

RECURSIVE IndexOf(_, _)
\* 1-based position of the first c in s, 0 when absent
IndexOf(s, c) ==
    IF s = <<>> THEN 0
    ELSE IF Head(s) = c THEN 1
    ELSE IF IndexOf(Tail(s), c) = 0 THEN 0
    ELSE IndexOf(Tail(s), c) + 1

RECURSIVE DigitRun(_)
DigitRun(s) == IF s # <<>> /\ IsDigit(Head(s)) THEN 1 + DigitRun(Tail(s)) ELSE 0

RECURSIVE NumOf(_, _)
NumOf(s, acc) ==
    IF s = <<>> THEN acc ELSE NumOf(Tail(s), acc * Len(Digits) + DigitVal(Head(s)))

ParseFail == [ok |-> FALSE, val |-> Null, rest |-> <<>>]
Parsed(v, rest) == [ok |-> TRUE, val |-> v, rest |-> rest]

\* a string literal: s starts with its opening quote, the closing one is at j
ParseString(s, j) ==
    IF j = 0 THEN ParseFail ELSE Parsed(Str(SubSeq(s, 2, j)), Slice(s, j + 1))

\* a number literal of k digits at the head of s
ParseNumber(s, k) == Parsed(Num(NumOf(SubSeq(s, 1, k), 0)), Slice(s, k))

\* a number, string, boolean or null at the head of s
ParsePrimAt(s) ==
    IF s = <<>> THEN ParseFail
    ELSE IF Head(s) = QUOTE THEN ParseString(s, IndexOf(Tail(s), QUOTE))
    ELSE IF IsDigit(Head(s)) THEN ParseNumber(s, DigitRun(s))
    ELSE IF StartsWith(s, TEXT_NULL) THEN Parsed(Null, Slice(s, Len(TEXT_NULL)))
    ELSE IF StartsWith(s, TEXT_TRUE) THEN Parsed(Bool(TRUE), Slice(s, Len(TEXT_TRUE)))
    ELSE IF StartsWith(s, TEXT_FALSE) THEN Parsed(Bool(FALSE), Slice(s, Len(TEXT_FALSE)))
    ELSE ParseFail

ParsePrim(s) == ParsePrimAt(SkipWs(s))

RECURSIVE ParseMembers(_, _)

\* after a member: "}" ends the object, "," starts the next member
MembersNext(s, acc) ==
    IF s = <<>> THEN ParseFail
    ELSE IF Head(s) = "}" THEN Parsed(Obj(acc), Tail(s))
    ELSE IF Head(s) = "," THEN ParseMembers(Tail(s), acc)
    ELSE ParseFail

MembersAfterValue(key, v, acc) ==
    IF ~v.ok THEN ParseFail ELSE MembersNext(SkipWs(v.rest), Append(acc, <<key, v.val>>))

MembersAfterKey(key, s, acc) ==
    IF s = <<>> \/ Head(s) # ":" THEN ParseFail
    ELSE MembersAfterValue(key, ParsePrim(Tail(s)), acc)

MembersKey(k, acc) ==
    IF ~k.ok \/ k.val.t # "str" THEN ParseFail
    ELSE MembersAfterKey(k.val.s, SkipWs(k.rest), acc)

\* the members of an object after "{", up to and including "}"
ParseMembers(s, acc) == MembersKey(ParsePrim(s), acc)

RECURSIVE ParseItems(_, _)

ItemsNext(s, acc) ==
    IF s = <<>> THEN ParseFail
    ELSE IF Head(s) = "]" THEN Parsed(Arr(acc), Tail(s))
    ELSE IF Head(s) = "," THEN ParseItems(Tail(s), acc)
    ELSE ParseFail

ItemsAfterValue(v, acc) ==
    IF ~v.ok THEN ParseFail ELSE ItemsNext(SkipWs(v.rest), Append(acc, v.val))

\* the items of an array after "[", up to and including "]"
ParseItems(s, acc) == ItemsAfterValue(ParsePrim(s), acc)

\* the rest of an object or array after its opening bracket
ParseObject(s) ==
    IF s # <<>> /\ Head(s) = "}" THEN Parsed(Obj(<<>>), Tail(s)) ELSE ParseMembers(s, <<>>)

ParseArray(s) ==
    IF s # <<>> /\ Head(s) = "]" THEN Parsed(Arr(<<>>), Tail(s)) ELSE ParseItems(s, <<>>)

ParseValueAt(s) ==
    IF s = <<>> THEN ParseFail
    ELSE IF Head(s) = "{" THEN ParseObject(SkipWs(Tail(s)))
    ELSE IF Head(s) = "[" THEN ParseArray(SkipWs(Tail(s)))
    ELSE ParsePrimAt(s)

\* JSON.parse succeeds when nothing but white space follows the value
WholeText(r) ==
    IF r.ok /\ SkipWs(r.rest) = <<>> THEN [ok |-> TRUE, val |-> r.val]
    ELSE [ok |-> FALSE, val |-> Null]

\* fromJSON(content): JSON.parse; ok is FALSE when it throws
fromJSON(content) == WholeText(ParseValueAt(SkipWs(content)))

----------------------------------------------------------------------------
(* One call of a DBFS method runs on a world: the filesystem and the two   *)
(* maps of the instance, with a record of what the call did (log: the      *)
(* steps in order; touched: the native paths handed to node:fs).  A result *)
(* is the world after the call with how it ended (out) and its value.      *)

\* the loaders, in registration order
loaders == <<"txt", "load">>

\* the savers, in registration order
savers == <<"save">>

\* the store a call starts from: its files, its caches and its handlers
World(f, m, d) == [fs |-> f, meta |-> m, data |-> d, log |-> <<>>, touched |-> {},
                   loaders |-> loaders, savers |-> savers]

\* a node:fs call on native path p
Touch(w, call, p) ==
    [w EXCEPT !.log = Append(@, call), !.touched = @ \cup {p}]

Throw(w, e) == [w |-> w, out |-> "throw", val |-> Null, err |-> e]
Return(w, v) == [w |-> w, out |-> "ret", val |-> v, err |-> "none"]

\* Map.prototype.set and Map.prototype.delete
MapSet(m, k, v) == [x \in (DOMAIN m) \cup {k} |-> IF x = k THEN v ELSE m[x]]
MapDelete(m, k) == [x \in (DOMAIN m) \ {k} |-> m[x]]

----------------------------------------------------------------------------
(* Format codecs: src/src/file-system *)

\* `${data}` of a string, number, boolean or null
TextOf(v) ==
    IF v.t = "str" THEN v.s
    ELSE IF v.t = "arr" THEN Join([i \in DOMAIN v.items |-> v.items[i].s], <<NL>>)
    ELSE PrimText(v)

\* saveTXT that appends the text to the file
saveTXTAppending(w, file, v) ==
    IF ~WriteOk(w.fs, file) THEN Throw(Touch(w, "writeFile", file), "EIO")
    ELSE Return([Touch(w, "writeFile", file) EXCEPT !.fs = AppendFile(w.fs, file, TextOf(v))],
                Str(TextOf(v)))

\* saveTXT(txtFile, data): writes the text and returns it
saveTXT(w, file, v) ==
    IF ~WriteOk(w.fs, file) THEN Throw(Touch(w, "writeFile", file), "EIO")
    ELSE Return([Touch(w, "writeFile", file) EXCEPT !.fs = WriteFile(w.fs, file, TextOf(v))],
                Str(TextOf(v)))

\* loadTXT(txtFile, delimiter, softError) with an empty delimiter: the text
\* of the file, or "" when reading throws and softError is set
loadTXT(w, file, softError) ==
    IF ReadOk(w.fs, file) THEN Return(Touch(w, "readFile", file), Str(w.fs[file].content))
    ELSE IF softError THEN Return(Touch(w, "readFile", file), Str(<<>>))
    ELSE Throw(Touch(w, "readFile", file), "EIO")

LooksLikeJSON(s) ==
    \/ StartsWith(s, <<"{">>) /\ EndsWith(s, <<"}">>)
    \/ StartsWith(s, <<"[">>) /\ EndsWith(s, <<"]">>)

\* try { data = JSON.parse(data) } catch { }
ParsedOr(r, v) == IF r.ok THEN r.val ELSE v

\* the value saveJSON stringifies: a string that looks like an object or an
\* array is parsed first
JSONData(v) ==
    IF v.t = "str" /\ LooksLikeJSON(v.s) THEN ParsedOr(fromJSON(v.s), v) ELSE v

\* saveJSON that keeps the content of a file that exists
WriteJSONOnce(w, file, json) ==
    IF ~WriteOk(w.fs, file) THEN Throw(Touch(w, "writeFile", file), "EIO")
    ELSE IF IsFile(w.fs, file) THEN Return(Touch(w, "writeFile", file), Str(json))
    ELSE Return([Touch(w, "writeFile", file) EXCEPT !.fs = WriteFile(w.fs, file, json)],
                Str(json))

WriteJSON(w, file, json) ==
    IF ~WriteOk(w.fs, file) THEN Throw(Touch(w, "writeFile", file), "EIO")
    ELSE Return([Touch(w, "writeFile", file) EXCEPT !.fs = WriteFile(w.fs, file, json)],
                Str(json))

\* saveJSON(file, data, null, 2)
saveJSON(w, file, v) == WriteJSON(w, file, toJSON(JSONData(v)))

ParsedDoc(w, r) == IF r.ok THEN Return(w, r.val) ELSE Throw(w, "SyntaxError")

\* loadJSON(file): throws when reading or parsing throws
loadJSON(w, file) ==
    IF ~ReadOk(w.fs, file) THEN Throw(Touch(w, "readFile", file), "EIO")
    ELSE ParsedDoc(Touch(w, "readFile", file), fromJSON(w.fs[file].content))

----------------------------------------------------------------------------
(* src/src/file-system/csv.js *)

\* the value that is not a number
NaN == [t |-> "nan"]

RECURSIVE TrimEnd(_)
TrimEnd(s) == IF s # <<>> /\ IsWs(s[Len(s)]) THEN TrimEnd(SubSeq(s, 1, Len(s) - 1)) ELSE s

\* s.trim()
Trim(s) == TrimEnd(SkipWs(s))

\* parseFloat(s): the number its longest leading run of digits spells
parseFloat(s) ==
    IF DigitRun(SkipWs(s)) = 0 THEN NaN
    ELSE Num(NumOf(SubSeq(SkipWs(s), 1, DigitRun(SkipWs(s))), 0))

\* Number(s): the number the whole trimmed text spells
Number(s) ==
    IF Trim(s) = <<>> THEN Num(0)
    ELSE IF DigitRun(Trim(s)) = Len(Trim(s)) THEN Num(NumOf(Trim(s), 0))
    ELSE NaN

\* if (!isNaN(parseFloat(value)) && value !== '') return Number(value)
DecodeTrimmed(v) == IF parseFloat(v) # NaN /\ v # <<>> THEN Number(v) ELSE Str(v)

\* decodeValue(value)
decodeValue(value) == DecodeTrimmed(Trim(value))

\* `${value}` of a decoded cell
CellText(v) ==
    IF v.t = "str" THEN v.s
    ELSE IF v.t = "num" THEN NumText(v.n)
    ELSE <<"N", "a", "N">>

\* rows.push(currentRow), for the row that ends the content only if it has cells
PushRow(rows, row) == IF row = <<>> THEN rows ELSE Append(rows, row)

\* the last value is pushed only if it is not empty
PushLast(row, value) == IF value = <<>> THEN row ELSE Append(row, decodeValue(value))

CR == "\r"

RECURSIVE ParseFrom(_, _, _, _, _, _, _)
\* the loop of parseCSV from position i on
ParseFrom(content, i, delimiter, rows, row, value, inQuotes) ==
    IF i > Len(content) THEN PushRow(rows, PushLast(row, value))
    ELSE IF content[i] = QUOTE
    THEN (IF inQuotes /\ i < Len(content) /\ content[i + 1] = QUOTE
          THEN ParseFrom(content, i + 2, delimiter, rows, row, Append(value, QUOTE), inQuotes)
          ELSE ParseFrom(content, i + 1, delimiter, rows, row, value, ~inQuotes))
    ELSE IF content[i] = delimiter /\ ~inQuotes
    THEN ParseFrom(content, i + 1, delimiter, rows, Append(row, decodeValue(value)), <<>>,
                   inQuotes)
    ELSE IF content[i] = CR /\ i < Len(content) /\ content[i + 1] = NL /\ ~inQuotes
    THEN ParseFrom(content, i + 2, delimiter, Append(rows, Append(row, decodeValue(value))),
                   <<>>, <<>>, inQuotes)
    ELSE IF content[i] = NL /\ ~inQuotes
    THEN ParseFrom(content, i + 1, delimiter, Append(rows, Append(row, decodeValue(value))),
                   <<>>, <<>>, inQuotes)
    ELSE ParseFrom(content, i + 1, delimiter, rows, row, Append(value, content[i]), inQuotes)

\* parseCSV(content, delimiter, '"')
parseCSV(content, delimiter) == ParseFrom(content, 1, delimiter, <<>>, <<>>, <<>>, FALSE)

UNDEFINED == <<"u", "n", "d", "e", "f", "i", "n", "e", "d">>

\* row.forEach((value, i) => result[cols[i]] = decodeValue(value))
RecordOf(cols, row) ==
    Obj([i \in DOMAIN row |->
            <<IF i \in DOMAIN cols THEN CellText(cols[i]) ELSE UNDEFINED,
              decodeValue(CellText(row[i]))>>])

\* all.slice(1).map(...): one record for each row after the first
RecordsOf(w, all) ==
    Return(w, Arr([i \in 1..(Len(all) - 1) |-> RecordOf(all[1], all[i + 1])]))

\* loadCSV(filePath, delimiter, '"', softError = false)
loadCSV(w, file, delimiter) ==
    IF ~existsSync(w.fs, file) THEN Throw(Touch(w, "exists", file), "File not found")
    ELSE IF ~ReadOk(w.fs, file)
    THEN Throw(Touch(Touch(w, "exists", file), "readFile", file), "EISDIR")
    ELSE RecordsOf(Touch(Touch(w, "exists", file), "readFile", file),
                   parseCSV(w.fs[file].content, delimiter))

Contains(s, c) == \E i \in DOMAIN s : s[i] = c

RECURSIVE DoubleQuotes(_)
\* cell.replace(new RegExp(quote, 'g'), quote + quote)
DoubleQuotes(s) ==
    IF s = <<>> THEN <<>>
    ELSE IF Head(s) = QUOTE THEN <<QUOTE, QUOTE>> \o DoubleQuotes(Tail(s))
    ELSE <<Head(s)>> \o DoubleQuotes(Tail(s))

\* escapeCell(cell), as text
escapeCell(cell, delimiter) ==
    IF cell.t = "str" /\ (Contains(cell.s, delimiter) \/ Contains(cell.s, QUOTE)
                            \/ Contains(cell.s, NL))
    THEN <<QUOTE>> \o DoubleQuotes(cell.s) \o <<QUOTE>>
    ELSE CellText(cell)

\* Object.keys(row).map(escapeCell).join(delimiter)
KeysLine(rec, delimiter) ==
    Join([i \in DOMAIN rec.kv |-> escapeCell(Str(rec.kv[i][1]), delimiter)], <<delimiter>>)

\* Object.values(row).map(escapeCell).join(delimiter)
ValuesLine(rec, delimiter) ==
    Join([i \in DOMAIN rec.kv |-> escapeCell(rec.kv[i][2], delimiter)], <<delimiter>>)

\* the lines saveCSV collects: the keys of the first row, the values of each
CsvLines(items, delimiter) ==
    IF items = <<>> THEN <<>>
    ELSE <<KeysLine(items[1], delimiter)>>
         \o [i \in DOMAIN items |-> ValuesLine(items[i], delimiter)]

\* saveCSV(filePath, data, delimiter, '"', "\n")
saveCSV(w, file, v, delimiter) ==
    saveTXT(w, file, Str(Join(CsvLines(v.items, delimiter), <<NL>>)))

----------------------------------------------------------------------------
(* src/src/file-system/index.js (its text is in yaml.test.js) *)

\* JSON.stringify(el) of an object or array of numbers, strings, booleans
\* and nulls, or of one of these
Stringify(v) ==
    CASE v.t = "obj" ->
            <<"{">> \o Join([i \in DOMAIN v.kv |->
                               <<QUOTE>> \o v.kv[i][1] \o <<QUOTE, ":">> \o PrimText(v.kv[i][2])],
                           <<",">>) \o <<"}">>
      [] v.t = "arr" ->
            <<"[">> \o Join([i \in DOMAIN v.items |-> PrimText(v.items[i])], <<",">>) \o <<"]">>
      [] OTHER -> PrimText(v)

\* Array.from(data).map(el => JSON.stringify(el) + "\n").join("")
JsonLines(items) == Join([i \in DOMAIN items |-> Stringify(items[i]) \o <<NL>>], <<>>)

\* rows.filter(Boolean).map(r => JSON.parse(r))
ParsedLines(w, lines) ==
    IF \E i \in DOMAIN lines : ~fromJSON(lines[i]).ok THEN Throw(w, "SyntaxError")
    ELSE Return(w, Arr([i \in DOMAIN lines |-> fromJSON(lines[i]).val]))

\* load of a .jsonl file: loadTXT(file, "\n"), then one JSON.parse per line
loadJSONL(w, file) ==
    IF ~ReadOk(w.fs, file) THEN Throw(Touch(w, "readFile", file), "EIO")
    ELSE ParsedLines(Touch(w, "readFile", file),
                     SelectSeq(Split(w.fs[file].content, NL), LAMBDA line : line # <<>>))

EXT_JSON == <<".", "j", "s", "o", "n">>
EXT_JSONL == EXT_JSON \o <<"l">>
EXT_CSV == <<".", "c", "s", "v">>
EXT_TSV == <<".", "t", "s", "v">>
EXT_TXT == <<".", "t", "x", "t">>
TAB == "\t"

\* node:path extname of a native path
FSextname(file) ==
    IF file = <<>> THEN <<>> ELSE ExtOf(LastPart(file), LastIndexOf(LastPart(file), "."))

\* save(file, data) of file-system/index.js: by extension, raw text otherwise
FSsave(w, file, v) ==
    CASE FSextname(file) = EXT_JSON -> saveJSON(w, file, v)
      [] FSextname(file) = EXT_JSONL -> saveTXT(w, file, Str(JsonLines(v.items)))
      [] FSextname(file) = EXT_CSV -> saveCSV(w, file, v, ",")
      [] FSextname(file) = EXT_TSV -> saveCSV(w, file, v, TAB)
      [] OTHER -> saveTXT(w, file, v)

\* load(file) of file-system/index.js: by extension, raw text otherwise
FSload(w, file) ==
    CASE FSextname(file) = EXT_JSON -> loadJSON(w, file)
      [] FSextname(file) = EXT_JSONL -> loadJSONL(w, file)
      [] FSextname(file) = EXT_CSV -> loadCSV(w, file, ",")
      [] FSextname(file) = EXT_TSV -> loadCSV(w, file, TAB)
      [] OTHER -> loadTXT(w, file, FALSE)

\* mkdirSync(p, {recursive: true})
MkdirPath(w, p) ==
    IF ~MkdirOk(w.fs, p) THEN Throw(Touch(w, "mkdir", p), "EEXIST")
    ELSE Return([Touch(w, "mkdir", p) EXCEPT !.fs = Mkdir(w.fs, p)], Null)

----------------------------------------------------------------------------
(* class FSDriver: src/src/FSDriver.js *)

ParsedOrNull(w, r) == IF r.ok THEN Return(w, r.val) ELSE Return(w, Null)

\* loadJSON(file, true): null when reading or parsing throws
loadJSONSoft(w, file) ==
    IF ~ReadOk(w.fs, file) THEN Return(Touch(w, "readFile", file), Null)
    ELSE ParsedOrNull(Touch(w, "readFile", file), fromJSON(w.fs[file].content))

\* load(file, {format: ext, softError: true})
FSloadSoft(w, file) ==
    IF FSextname(file) = EXT_JSON THEN loadJSONSoft(w, file) ELSE loadTXT(w, file, TRUE)

\* the values that count as false in a condition
Falsy(v) == v \in {Null, Bool(FALSE), Num(0), Str(<<>>), NaN}

\* loaded || defaultValue
LoadedOr(r, defaultValue) ==
    IF r.out = "throw" \/ Falsy(r.val) THEN Return(r.w, defaultValue) ELSE r

\* FSDriver.read(absoluteURI, defaultValue), no driver chained
read(w, absoluteURI, defaultValue) == LoadedOr(FSloadSoft(w, absoluteURI), defaultValue)

WriteSaved(r) == IF r.out = "throw" THEN r ELSE Return(r.w, Bool(TRUE))

WriteEnsured(r, absoluteURI, document) ==
    IF r.out = "throw" THEN r ELSE WriteSaved(FSsave(r.w, absoluteURI, document))

\* FSDriver.write(absoluteURI, document), no driver chained
write(w, absoluteURI, document) ==
    WriteEnsured(MkdirPath(w, ParentOf(absoluteURI)), absoluteURI, document)

----------------------------------------------------------------------------
(* class DBFS: src/src/FS.js *)

LLM_CONFIG == <<"/", "l", "l", "m", ".", "c", "o", "n", "f", "i", "g", ".", "j", "s">>

\* this.FS.resolve(this.cwd, this.root, file)
NativePath(file) == FSresolve(<<cwd, root, file>>)

\* DB.absolute(...args) of @nan0web/db: cwd, root and the normalized
\* arguments, joined; a leading "/" of root or of the arguments is dropped
absolute(args) ==
    Join(<<cwd, IF StartsWith(root, <<SLASH>>) THEN Slice(root, 1) ELSE root,
           normalize(args)>>, <<SLASH>>)

\* this.FS.resolve(this.cwd, abs.startsWith("/") ? abs.slice(1) : abs)
LocationOf(abs) ==
    FSresolve(<<cwd, IF StartsWith(abs, <<SLASH>>) THEN Slice(abs, 1) ELSE abs>>)

\* location(...args)
location(args) == LocationOf(absolute(args))

\* the directory of the store
RootDir == FSresolve(<<cwd, root>>)

\* ensureAccess(uri, level): ok is FALSE when it throws
ensureAccess(w, uri, level) ==
    [ok |-> /\ DBensureAccess(uri, level)
            /\ (EndsWith(uri, LLM_CONFIG) \/ ~StartsWith(resolveSync(<<uri>>), DOTDOT)),
     w |-> [w EXCEPT !.log = Append(@, "ensureAccess")]]

\* the stat of native path p, after existsSync and statSync
StatPath(w, p) ==
    IF ~existsSync(w.fs, p) THEN Return(Touch(w, "exists", p), NoStat("Document not found"))
    ELSE Return(Touch(Touch(w, "exists", p), "stat", p), createDocumentStatFrom(w.fs, p))

\* statDocument(uri)
statDocument(w, uri) == StatPath(w, NativePath(resolveSync(<<uri>>)))

\* what statSync may throw on a path that exists ("none": it returns)
StatFaults == {"none", "EACCES"}

\* the try block of statDocument when statSync throws fault: the catch
\* returns a stat that carries the error
StatPathWith(w, p, fault) ==
    IF fault # "none" /\ existsSync(w.fs, p)
    THEN Return(Touch(Touch(w, "exists", p), "stat", p), NoStat(fault))
    ELSE StatPath(w, p)

\* statDocument that answers from meta when it has an entry
statDocumentCached(w, uri, fault) ==
    IF uri \in DOMAIN w.meta THEN Return(w, w.meta[uri])
    ELSE StatPathWith(w, NativePath(resolveSync(<<uri>>)), fault)

\* statDocument(uri), with the outcome of its statSync call
statDocumentWith(w, uri, fault) ==
    StatPathWith(w, NativePath(resolveSync(<<uri>>)), fault)

\* one loader; "decline" is a registered loader that cannot handle the file
RunLoader(w, loader, p, ext) ==
    IF loader = "txt"
    THEN (IF ext = EXT_TXT THEN loadTXT([w EXCEPT !.log = Append(@, "loader")], p, TRUE)
          ELSE Return([w EXCEPT !.log = Append(@, "loader")], Bool(FALSE)))
    ELSE IF loader = "decline" THEN Return([w EXCEPT !.log = Append(@, "loader")], Bool(FALSE))
    ELSE FSload([w EXCEPT !.log = Append(@, "loader")], p)

RECURSIVE LoaderLoop(_, _, _, _)

\* a loop that runs every loader and returns what the last one returns
LoaderNextToTheEnd(r, i, p, ext) ==
    IF r.out = "throw" \/ i >= Len(r.w.loaders) THEN r ELSE LoaderLoop(r.w, i + 1, p, ext)

\* if (false !== res) return res
LoaderNext(r, i, p, ext) ==
    IF r.out = "throw" \/ r.val # Bool(FALSE) THEN r ELSE LoaderLoop(r.w, i + 1, p, ext)

\* for (const loader of this.loaders) ...; return false
LoaderLoop(w, i, p, ext) ==
    IF i > Len(w.loaders) THEN Return(w, Bool(FALSE))
    ELSE LoaderNext(RunLoader(w, w.loaders[i], p, ext), i, p, ext)

\* loadDocumentAs that runs the loaders without looking for the file first
LoadGrantedUnchecked(a, ext, p, defaultValue) ==
    IF ~a.ok THEN Throw(a.w, "No access") ELSE LoaderLoop(a.w, 1, p, ext)

\* loadDocumentAs after ensureAccess
LoadGranted(a, ext, p, defaultValue) ==
    IF ~a.ok THEN Throw(a.w, "No access")
    ELSE IF ~existsSync(a.w.fs, p) THEN Return(Touch(a.w, "exists", p), defaultValue)
    ELSE LoaderLoop(Touch(a.w, "exists", p), 1, p, ext)

\* loadDocumentAs(ext, uri, defaultValue)
loadDocumentAs(w, ext, uri, defaultValue) ==
    LoadGranted(ensureAccess(w, uri, "r"), ext, NativePath(resolveSync(<<uri>>)), defaultValue)

\* loadDocument(uri, defaultValue)
loadDocument(w, uri, defaultValue) == loadDocumentAs(w, extname(uri), uri, defaultValue)

\* _buildPath(uri)
buildPath(w, uri) == MkdirPath(w, NativePath(resolveSync(<<uri, DOTDOT>>)))

\* saveDocument that caches the stat in data as well
SavedStatAsData(st, uri) ==
    Return([st.w EXCEPT !.meta = MapSet(@, uri, st.val),
                        !.data = MapSet(@, uri, st.val)], Bool(TRUE))

\* saveDocument that sets meta and leaves data alone
SavedMetaOnly(st, uri) ==
    Return([st.w EXCEPT !.meta = MapSet(@, uri, st.val)], Bool(TRUE))

\* this.meta.set(uri, stat); this.data.set(uri, false); return true
Saved(st, uri) ==
    Return([st.w EXCEPT !.meta = MapSet(@, uri, st.val),
                        !.data = MapSet(@, uri, Bool(FALSE))], Bool(TRUE))

\* one saver; "decline" is a registered saver that cannot handle the data
RunSaver(w, saver, p, doc) ==
    IF saver = "decline" THEN Return([w EXCEPT !.log = Append(@, saver)], Bool(FALSE))
    ELSE FSsave([w EXCEPT !.log = Append(@, saver)], p, doc)

RECURSIVE SaverLoop(_, _, _, _, _)

\* if (false !== saver(path, document, ext)) ...
SaverNext(r, i, uri, p, doc) ==
    IF r.out = "throw" THEN r
    ELSE IF r.val # Bool(FALSE) THEN Saved(statDocument(r.w, uri), uri)
    ELSE SaverLoop(r.w, i + 1, uri, p, doc)

\* for (const saver of this.savers) ...; return false
SaverLoop(w, i, uri, p, doc) ==
    IF i > Len(w.savers) THEN Return(w, Bool(FALSE))
    ELSE SaverNext(RunSaver(w, w.savers[i], p, doc), i, uri, p, doc)

\* saveDocument after _buildPath
SaveBuilt(b, uri, doc) ==
    IF b.out = "throw" THEN b
    ELSE SaverLoop(b.w, 1, uri, NativePath(resolveSync(<<uri>>)), doc)

\* saveDocument that looks at the outcome of ensureAccess only after the
\* directories are built and the savers have run
SaveGrantedAfterWork(a, uri, doc) ==
    IF ~a.ok THEN Throw(SaveBuilt(buildPath(a.w, uri), uri, doc).w, "No access")
    ELSE SaveBuilt(buildPath(a.w, uri), uri, doc)

\* saveDocument after ensureAccess
SaveGranted(a, uri, doc) ==
    IF ~a.ok THEN Throw(a.w, "No access") ELSE SaveBuilt(buildPath(a.w, uri), uri, doc)

\* saveDocument(uri, document)
saveDocument(w, uri, doc) == SaveGranted(ensureAccess(w, uri, "w"), uri, doc)

\* writeDocument that replaces the content of the file by the chunk
AppendPathTruncating(w, p, chunk) ==
    IF ~WriteOk(w.fs, p) THEN Throw(Touch(w, "appendFile", p), "EIO")
    ELSE Return([Touch(w, "appendFile", p) EXCEPT !.fs = WriteFile(w.fs, p, chunk)],
                Bool(TRUE))

\* appendFileSync(path, chunk); return true
AppendPath(w, p, chunk) ==
    IF ~WriteOk(w.fs, p) THEN Throw(Touch(w, "appendFile", p), "EIO")
    ELSE Return([Touch(w, "appendFile", p) EXCEPT !.fs = AppendFile(w.fs, p, chunk)],
                Bool(TRUE))

\* writeDocument that caches the stat of the file it appended to
WriteCached(r, uri) ==
    IF r.out = "throw" THEN r ELSE Saved(statDocument(r.w, uri), uri)

WriteBuiltCaching(b, uri, chunk) ==
    IF b.out = "throw" THEN b
    ELSE WriteCached(AppendPath(b.w, NativePath(resolveSync(<<uri>>)), chunk), uri)

\* writeDocument after _buildPath
WriteBuilt(b, uri, chunk) ==
    IF b.out = "throw" THEN b
    ELSE AppendPath(b.w, NativePath(resolveSync(<<uri>>)), chunk)

\* writeDocument after ensureAccess
WriteGranted(a, uri, chunk) ==
    IF ~a.ok THEN Throw(a.w, "No access") ELSE WriteBuilt(buildPath(a.w, uri), uri, chunk)

\* writeDocument that builds the directories before it asks for access
writeDocumentBuildFirst(w, uri, chunk) ==
    WriteGranted(ensureAccess(buildPath(w, uri).w, uri, "w"), uri, chunk)

\* writeDocument(uri, chunk)
writeDocument(w, uri, chunk) == WriteGranted(ensureAccess(w, uri, "w"), uri, chunk)

\* dropDocument of a directory: refused while meta has a key below it
DropDirectory(w, file, p) ==
    IF \E u \in DOMAIN w.meta : StartsWith(u, file \o <<SLASH>>)
    THEN Throw(w, "Directory has children, delete them first")
    ELSE IF ~RmdirOk(w.fs, p) THEN Throw(Touch(w, "rmdir", p), "ENOTEMPTY")
    ELSE Return([Touch(w, "rmdir", p) EXCEPT !.fs = Remove(w.fs, p),
                                             !.meta = MapDelete(@, file),
                                             !.data = MapDelete(@, file)], Bool(TRUE))

\* dropDocument that returns false whatever the second statDocument saw
UnlinkedGivesFalse(st, file) ==
    IF ~st.val.exists
    THEN Return([st.w EXCEPT !.data = MapDelete(@, file), !.meta = MapDelete(@, file)],
                Bool(FALSE))
    ELSE Return(st.w, Bool(FALSE))

\* dropDocument of a file, after unlinkSync and the second statDocument
Unlinked(st, file) ==
    IF ~st.val.exists
    THEN Return([st.w EXCEPT !.data = MapDelete(@, file), !.meta = MapDelete(@, file)],
                Bool(TRUE))
    ELSE Return(st.w, Bool(FALSE))

DropFile(w, uri, file, p) ==
    IF ~UnlinkOk(w.fs, p) THEN Throw(Touch(w, "unlink", p), "EPERM")
    ELSE Unlinked(statDocument([Touch(w, "unlink", p) EXCEPT !.fs = Remove(w.fs, p)], uri),
                  file)

\* dropDocument that does not return early when the document is missing
DropStatedUnchecked(st, uri, file, p) ==
    IF st.val.isDirectory THEN DropDirectory(st.w, file, p) ELSE DropFile(st.w, uri, file, p)

\* dropDocument after the first statDocument
DropStated(st, uri, file, p) ==
    IF ~st.val.exists THEN Return(st.w, Bool(FALSE))
    ELSE IF st.val.isDirectory THEN DropDirectory(st.w, file, p)
    ELSE DropFile(st.w, uri, file, p)

\* dropDocument after ensureAccess
DropGranted(a, uri) ==
    IF ~a.ok THEN Throw(a.w, "No access")
    ELSE DropStated(statDocument(a.w, uri), uri, resolveSync(<<uri>>),
                    NativePath(resolveSync(<<uri>>)))

\* dropDocument(uri)
dropDocument(w, uri) == DropGranted(ensureAccess(w, uri, "d"), uri)

RECURSIVE CommonLen(_, _)
\* the length of the common prefix of two native paths
CommonLen(a, b) ==
    IF a = <<>> \/ b = <<>> \/ Head(a) # Head(b) THEN 0
    ELSE 1 + CommonLen(Tail(a), Tail(b))

\* FS.relative(from, to), as text
FSrelative(from, to) ==
    Join([i \in 1..(Len(from) - CommonLen(from, to)) |-> DOTDOT]
         \o SubSeq(to, CommonLen(from, to) + 1, Len(to)), <<SLASH>>)

\* new DocumentEntry({stat, name, path, depth}) for the entry name of the
\* directory p
DocumentEntry(f, p, name, depth, skipStat) ==
    [stat |-> IF skipStat THEN NoStat("none") ELSE createDocumentStatFrom(f, Append(p, name)),
     name |-> name,
     path |-> FSrelative(FSresolve(<<cwd>>), Append(p, name)),
     depth |-> depth]

\* a sort that puts the directories last
DirsLast(entries) ==
    SelectSeq(entries, LAMBDA e : ~e.stat.isDirectory)
    \o SelectSeq(entries, LAMBDA e : e.stat.isDirectory)

\* files.sort((a, b) => Number(b.stat.isDirectory) - Number(a.stat.isDirectory)):
\* a stable sort, directories first
DirsFirst(entries) ==
    SelectSeq(entries, LAMBDA e : e.stat.isDirectory)
    \o SelectSeq(entries, LAMBDA e : ~e.stat.isDirectory)

\* the statSync calls of the entries
TouchAll(w, p, names, skipStat) ==
    IF skipStat THEN w
    ELSE [w EXCEPT !.log = @ \o [i \in 1..Len(names) |-> "stat"],
                   !.touched = @ \cup {Append(p, names[i]) : i \in 1..Len(names)}]

\* listDir after FS.resolve; names is what readdirSync returns
ListPath(w, p, depth, skipStat, names) ==
    IF ~existsSync(w.fs, p) THEN Throw(Touch(w, "readdir", p), "ENOENT")
    ELSE IF ~IsDir(w.fs, p) THEN Throw(Touch(w, "readdir", p), "ENOTDIR")
    ELSE Return(TouchAll(Touch(w, "readdir", p), p, names, skipStat),
                Arr(DirsFirst([i \in 1..Len(names) |->
                        DocumentEntry(w.fs, p, names[i], depth, skipStat)])))

\* listDir(uri, {depth, skipStat})
listDir(w, uri, depth, skipStat, names) ==
    ListPath(w, NativePath(uri), depth, skipStat, names)

----------------------------------------------------------------------------
(* DB.readDir and DB.findStream of @nan0web/db, over DBFS.statDocument and
   DBFS.listDir, for directories without index files *)

\* the URI of the entry name of the directory uri
SubUri(uri, name) == uri \o <<SLASH>> \o name

\* a directory entry is yielded only when includeDirs is set
Yielded(e, includeDirs) == IF e.stat.isDirectory /\ ~includeDirs THEN <<>> ELSE <<e>>

RECURSIVE ReadEntries(_, _, _, _, _, _, _, _)
RECURSIVE ReadAfterSub(_, _, _, _, _, _, _, _)
RECURSIVE ReadListed(_, _, _, _, _, _)
RECURSIVE ReadLevel(_, _, _, _, _, _)

\* the entries of one listing, in its order: a sub-directory is read before
\* the entries that follow it
ReadEntries(w, uri, entries, depth, level, includeDirs, order, out) ==
    IF entries = <<>> THEN Return(w, Arr(out))
    ELSE IF Head(entries).stat.isDirectory /\ depth > 0
    THEN ReadAfterSub(ReadLevel(w, SubUri(uri, Head(entries).name), depth - 1, level + 1,
                                includeDirs, order),
                      uri, entries, depth, level, includeDirs, order, out)
    ELSE ReadEntries(w, uri, Tail(entries), depth, level, includeDirs, order,
                     out \o Yielded(Head(entries), includeDirs))

ReadAfterSub(sub, uri, entries, depth, level, includeDirs, order, out) ==
    ReadEntries(sub.w, uri, Tail(entries), depth, level, includeDirs, order,
                out \o Yielded(Head(entries), includeDirs) \o sub.val.items)

\* readDir that lets the error of listDir through
ReadListedRethrow(listed, uri, depth, level, includeDirs, order) ==
    IF listed.out = "throw" THEN listed
    ELSE ReadEntries(listed.w, uri, listed.val.items, depth, level, includeDirs, order, <<>>)

\* a directory that is missing or cannot be listed yields nothing and ends
\* its part of the traversal silently
ReadListed(listed, uri, depth, level, includeDirs, order) ==
    IF listed.out = "throw" THEN Return(listed.w, Arr(<<>>))
    ELSE ReadEntries(listed.w, uri, listed.val.items, depth, level, includeDirs, order, <<>>)

\* what readdirSync returns for p: nothing to choose when p is no directory
Readdir(order, p) == IF p \in DOMAIN order THEN order[p] ELSE <<>>

ReadLevel(w, uri, depth, level, includeDirs, order) ==
    ReadListed(listDir(w, uri, level, FALSE, Readdir(order, NativePath(uri))),
               uri, depth, level, includeDirs, order)

ReadGranted(g, uri, depth, includeDirs, order) ==
    IF ~g.ok THEN Throw(g.w, "access")
    ELSE ReadLevel(g.w, uri, depth, 0, includeDirs, order)

\* readDir(uri, {depth, includeDirs}), consumed to its end; order[p] is what
\* readdirSync(p) returns
readDir(w, uri, depth, includeDirs, order) ==
    ReadGranted(ensureAccess(w, uri, "r"), uri, depth, includeDirs, order)

\* the deepest traversal readDir is asked for
MaxDepth == 2

\* the first limit entries; all of them when limit is -1
Truncate(items, limit) ==
    IF limit < 0 \/ Len(items) <= limit THEN items ELSE SubSeq(items, 1, limit)

\* each yielded item wraps its entry
StreamEntries(items) == [i \in DOMAIN items |-> [file |-> items[i]]]

FindRead(r, limit) ==
    IF r.out = "throw" THEN r
    ELSE Return(r.w, Arr(StreamEntries(Truncate(r.val.items, limit))))

\* findStream(uri, {limit, sort, order}), consumed to its end: the entries
\* of the whole tree under uri (no path of the store lies deeper than
\* MaxDepth), in the order readDir yields them
findStream(w, uri, limit, sort, order, readdirs) ==
    FindRead(readDir(w, uri, MaxDepth, FALSE, readdirs), limit)

----------------------------------------------------------------------------
(* The store and its calls *)

A_TXT == <<"a", ".", "t", "x", "t">>
DOT_A_TXT == <<".", "/">> \o A_TXT
ABS_A_TXT == <<"/">> \o A_TXT
UP_A_TXT == <<".", ".", "/">> \o A_TXT
DOTS_C_TXT == <<".", ".", "c", ".", "t", "x", "t">>
D_DIR == <<"d">>
D_A_TXT == <<"d", "/">> \o A_TXT
D_DOT_A_TXT == <<"d", "/", ".", "/">> \o A_TXT
B_JSON == <<"b", ".", "j", "s", "o", "n">>
D_B_JSON == <<"d", "/">> \o B_JSON
D_D_DIR == <<"d", "/", "d">>
D_D_A_TXT == <<"d", "/", "d", "/">> \o A_TXT
E_DIR == <<"e">>

\* the length a file may grow to by appends
MaxLen == 2
\* the number of calls a recorded run makes
MaxCalls == 3

Empty == [x \in {} |-> Null]

NoCall == [op |-> "none", uri |-> <<>>, arg |-> Null, out |-> "ret", val |-> Null,
           err |-> "none", log |-> <<>>, touched |-> {}]

\* the store after construction: cwd "/w", root "r", the root directory
\* exists and is empty, nothing is cached
InitStore ==
    /\ cwd = <<"/", "w">>
    /\ root = <<"r">>
    /\ fs = Mkdir(Empty, FSresolve(<<cwd, root>>))
    /\ meta = Empty
    /\ data = Empty
    /\ last = NoCall
    /\ running = <<>>

Init == InitStore /\ hist = [on |-> FALSE, calls |-> <<>>]

\* the same store, in a run that records its calls
InitSeq == InitStore /\ hist = [on |-> TRUE, calls |-> <<>>]

\* a call op(uri, arg) that ended as r
Apply(op, uri, arg, r) ==
    /\ hist.on => Len(hist.calls) < MaxCalls
    /\ fs' = r.w.fs
    /\ meta' = r.w.meta
    /\ data' = r.w.data
    /\ last' = [op |-> op, uri |-> uri, arg |-> arg, out |-> r.out, val |-> r.val,
                err |-> r.err, log |-> r.w.log, touched |-> r.w.touched]
    /\ hist' = IF hist.on
               THEN [hist EXCEPT !.calls = Append(@, [op |-> op, uri |-> uri, arg |-> arg,
                                                     out |-> r.out, val |-> r.val])]
               ELSE hist
    /\ UNCHANGED <<cwd, root, running>>

Now == World(fs, meta, data)

SaveDocument(uris, docs) ==
    \E uri \in uris, doc \in docs :
        Apply("saveDocument", uri, doc, saveDocument(Now, uri, doc))

\* the length of the file behind uri
ContentLen(p) == IF IsFile(fs, p) THEN Len(fs[p].content) ELSE 0

WriteDocument(uris, chunks) ==
    \E uri \in uris, chunk \in chunks :
        /\ ContentLen(NativePath(resolveSync(<<uri>>))) + Len(chunk) <= MaxLen
        /\ Apply("writeDocument", uri, Str(chunk), writeDocument(Now, uri, chunk))

LoadDocument(uris, defaults) ==
    \E uri \in uris, defaultValue \in defaults :
        Apply("loadDocument", uri, defaultValue, loadDocument(Now, uri, defaultValue))

DropDocument(uris) ==
    \E uri \in uris : Apply("dropDocument", uri, Null, dropDocument(Now, uri))

StatDocument(uris) ==
    \E uri \in uris, fault \in StatFaults :
        Apply("statDocument", uri, [t |-> "fault", fault |-> fault],
              statDocumentWith(Now, uri, fault))

\* the store with the handlers that were registered
Registered(w, ls, ss) == [w EXCEPT !.loaders = ls, !.savers = ss]

SaveWith(uris, docs, chains) ==
    \E uri \in uris, doc \in docs, chain \in chains :
        Apply("saveDocument", uri, [t |-> "with", doc |-> doc, chain |-> chain],
              saveDocument(Registered(Now, loaders, chain), uri, doc))

LoadWith(uris, chains) ==
    \E uri \in uris, chain \in chains :
        Apply("loadDocument", uri, [t |-> "with", doc |-> Null, chain |-> chain],
              loadDocument(Registered(Now, chain, savers), uri, Str(<<>>)))

\* location(uri): the call touches no file
Location(uris) ==
    \E uri \in uris :
        Apply("location", uri, Null, Return(Now, [t |-> "path", p |-> location(<<uri>>)]))

RootUri == {DOT}

RECURSIVE Orders(_)
\* the orders readdirSync may return a set of names in
Orders(names) ==
    IF names = {} THEN {<<>>}
    ELSE UNION {{<<n>> \o rest : rest \in Orders(names \ {n})} : n \in names}

\* the names in the directory p
Names(f, p) == {q[Len(q)] : q \in Children(f, p)}

ListDir(uris, skips) ==
    \E uri \in uris, skipStat \in skips :
        \E names \in Orders(Names(fs, NativePath(uri))) :
            Apply("listDir", uri, [t |-> "list", skipStat |-> skipStat, names |-> names],
                  listDir(Now, uri, 0, skipStat, names))

\* the directories of the store
StoreDirs(f) == {p \in DOMAIN f : f[p].kind = "dir" /\ Inside(p, RootDir)}

\* what readdirSync may return, for every directory of the store
Readdirs(f) ==
    {order \in [StoreDirs(f) -> UNION {Orders(Names(f, p)) : p \in StoreDirs(f)}] :
        \A p \in StoreDirs(f) : order[p] \in Orders(Names(f, p))}

ReadDir(uris, depths, includes) ==
    \E order \in Readdirs(fs) :
        \E uri \in uris, depth \in depths, includeDirs \in includes :
            Apply("readDir", uri,
                  [t |-> "read", depth |-> depth, includeDirs |-> includeDirs, order |-> order],
                  readDir(Now, uri, depth, includeDirs, order))

FindStream(uris, limits, sorts, orders) ==
    \E readdirs \in Readdirs(fs) :
        \E uri \in uris, limit \in limits, sort \in sorts, order \in orders :
            Apply("findStream", uri,
                  [t |-> "find", limit |-> limit, sort |-> sort, order |-> order,
                   readdirs |-> readdirs],
                  findStream(Now, uri, limit, sort, order, readdirs))

----------------------------------------------------------------------------
(* Runs over the spellings of one file name, inside and outside the store *)

PathUris == {A_TXT, ABS_A_TXT, UP_A_TXT, DOTS_C_TXT}
TextDocs == {Str(<<"A">>)}
OneChunk == {<<"B">>}
Defaults == {Str(<<>>), Null}
ListUris == {DOT, DOTDOT}

Next ==
    \/ SaveDocument(PathUris, TextDocs)
    \/ WriteDocument(PathUris, OneChunk)
    \/ LoadDocument(PathUris, Defaults)
    \/ DropDocument(PathUris)
    \/ StatDocument(PathUris)
    \/ ListDir(ListUris, BOOLEAN)

Spec == Init /\ [][Next]_vars

----------------------------------------------------------------------------
(* Runs over a directory and the file in it *)

DirUris == {D_DIR, D_A_TXT, D_DOT_A_TXT}

NextDir ==
    \/ SaveDocument(DirUris, TextDocs)
    \/ WriteDocument(DirUris, OneChunk)
    \/ LoadDocument(DirUris, Defaults)
    \/ DropDocument(DirUris)
    \/ ListDir(RootUri, BOOLEAN)

SpecDir == Init /\ [][NextDir]_vars

----------------------------------------------------------------------------
(* Recorded runs of at most MaxCalls calls *)

SeqUris == {DOT_A_TXT, D_A_TXT}
TwoChunks == {<<"A">>, <<"B">>}
OneDefault == {Str(<<>>)}

NextSeq ==
    \/ SaveDocument(SeqUris, TextDocs)
    \/ WriteDocument(SeqUris, TwoChunks)
    \/ LoadDocument(SeqUris, OneDefault)
    \/ DropDocument(SeqUris)

SpecSeq == InitSeq /\ [][NextSeq]_vars

----------------------------------------------------------------------------
(* Runs over JSON documents *)

JsonUris == {B_JSON}
JsonDocs ==
    {Null, Bool(FALSE), Num(1), Str(<<"A">>), Str(<<"{", "}">>),
     Obj(<<>>), Obj(<< <<<<"k">>, Num(1)>> >>), Arr(<<Num(1), Str(<<"A">>)>>)}

NextJson ==
    \/ SaveDocument(JsonUris, JsonDocs)
    \/ LoadDocument(JsonUris, OneDefault)
    \/ DropDocument(JsonUris)

SpecJson == InitSeq /\ [][NextJson]_vars

----------------------------------------------------------------------------
(* Runs that list the root and a directory in it *)

ListedFiles == {A_TXT, D_A_TXT}
ListedDirs == {DOT, D_DIR}

NextList ==
    \/ SaveDocument(ListedFiles, TextDocs)
    \/ WriteDocument(ListedFiles, OneChunk)
    \/ DropDocument(ListedFiles \cup {D_DIR})
    \/ ListDir(ListedDirs, BOOLEAN)

SpecList == Init /\ [][NextList]_vars

----------------------------------------------------------------------------
(* Runs that traverse a tree of three levels and a directory that is missing *)

ReadFiles == {A_TXT, D_B_JSON, D_D_A_TXT}
ReadUris == {DOT, D_DIR, E_DIR}

\* a chunk that fills a file at once
FullChunk == {<<"B", "B">>}

NextRead ==
    \/ WriteDocument(ReadFiles, FullChunk)
    \/ DropDocument({D_D_A_TXT})
    \/ ReadDir(ReadUris, 0..MaxDepth, BOOLEAN)

SpecRead == Init /\ [][NextRead]_vars

----------------------------------------------------------------------------
(* Runs that scan a tree whose nested file has the greater name *)

FindFiles == {A_TXT, D_B_JSON}
Limits == {-1, 1}
SortKeys == {"name", "size"}
SortOrders == {"asc", "desc"}

NextFind ==
    \/ WriteDocument(FindFiles, OneChunk)
    \/ FindStream({DOT, D_DIR}, Limits, SortKeys, SortOrders)

SpecFind == Init /\ [][NextFind]_vars

----------------------------------------------------------------------------
(* Runs that normalize and resolve one URI: the arguments are drawn at the
   start, each run applies one of the functions to them *)

\* the most segments an argument list has
MaxSegs == 3
UP_UP == DOTDOT \o <<SLASH>> \o DOTDOT
UriTokens == {<<>>, DOT, DOTDOT, UP_UP, <<"a">>, <<"b">>}
ArgLists == UNION {[1..n -> UriTokens] : n \in 1..MaxSegs}

\* the arguments, and the URI they spell when joined with "/"
Given(args) ==
    [NoCall EXCEPT !.op = "given", !.uri = Join(args, <<SLASH>>),
                   !.arg = [t |-> "args", args |-> args]]

InitUri ==
    /\ cwd = <<"/", "w">>
    /\ root = <<"r">>
    /\ fs = Mkdir(Empty, FSresolve(<<cwd, root>>))
    /\ meta = Empty
    /\ data = Empty
    /\ hist = [on |-> FALSE, calls |-> <<>>]
    /\ running = <<>>
    /\ \E args \in ArgLists : last = Given(args)

\* a pure function applied to what was drawn
Applied(op, v) ==
    /\ last.op = "given"
    /\ last' = [last EXCEPT !.op = op, !.val = Str(v)]
    /\ UNCHANGED <<cwd, root, fs, meta, data, hist, running>>

\* normalize(uri)
Normalize == Applied("normalize", normalize(<<last.uri>>))

\* resolveSync(uri)
ResolveSync == Applied("resolveSync", resolveSync(<<last.uri>>))

\* resolve(...args)
ResolveArgs == Applied("resolve", resolveSync(last.arg.args))

NextUri == Normalize \/ ResolveSync \/ ResolveArgs

SpecUri == InitUri /\ [][NextUri]_vars

----------------------------------------------------------------------------
(* Runs that locate, save, load and stat a document, in a store whose cwd
   is absolute or relative *)

Cwds == {<<"/", "w">>, DOT}
LocUris == {A_TXT, ABS_A_TXT, D_A_TXT}

InitLoc ==
    /\ cwd \in Cwds
    /\ root = <<"r">>
    /\ fs = Mkdir(Empty, FSresolve(<<cwd, root>>))
    /\ meta = Empty
    /\ data = Empty
    /\ last = NoCall
    /\ hist = [on |-> FALSE, calls |-> <<>>]
    /\ running = <<>>

NextLoc ==
    \/ Location(LocUris)
    \/ SaveDocument(LocUris, TextDocs)
    \/ LoadDocument(LocUris, OneDefault)
    \/ StatDocument(LocUris)

SpecLoc == InitLoc /\ [][NextLoc]_vars

----------------------------------------------------------------------------
(* Runs of a store whose loaders and savers were registered by its user *)

ChainUris == {A_TXT, B_JSON}
ChainDocs == {Str(<<"A">>), Bool(FALSE)}
LoaderChains == {loaders, <<"decline">> \o loaders, <<"load", "txt">>, <<"decline">>}
SaverChains == {savers, <<"decline">> \o savers, savers \o <<"decline">>,
                <<"decline", "decline">>}

NextChain ==
    \/ SaveWith(ChainUris, ChainDocs, SaverChains)
    \/ LoadWith(ChainUris, LoaderChains)

SpecChain == Init /\ [][NextChain]_vars

----------------------------------------------------------------------------
(* Two calls on one URI that overlap.  An async method runs without        *)
(* interruption from one await to the next; at an await the other call may *)
(* run.  saveDocument awaits ensureAccess, _buildPath, resolve and         *)
(* statDocument; dropDocument awaits ensureAccess, resolve and, twice,     *)
(* statDocument; statDocument awaits resolve before its native calls.      *)

Call(op, doc, existed) ==
    [op |-> op, uri |-> A_TXT, doc |-> doc, pc |-> "access", stat |-> NoStat("none"),
     out |-> "ret", val |-> Null, err |-> "none", existed |-> existed]

SaveCall(text, existed) == Call("saveDocument", Str(text), existed)
DropCall(existed) == Call("dropDocument", Null, existed)

RacePairs(existed) ==
    {<<SaveCall(<<"B">>, existed), SaveCall(<<"C", "C">>, existed)>>,
     <<DropCall(existed), DropCall(existed)>>,
     <<SaveCall(<<"B">>, existed), DropCall(existed)>>}

\* the store after construction, or after saveDocument("a.txt", "A")
StoresBefore ==
    {World(Mkdir(Empty, FSresolve(<<<<"/", "w">>, <<"r">>>>)), Empty, Empty),
     saveDocument(World(Mkdir(Empty, FSresolve(<<<<"/", "w">>, <<"r">>>>)), Empty, Empty),
                  A_TXT, Str(<<"A">>)).w}

InitRace ==
    /\ cwd = <<"/", "w">>
    /\ root = <<"r">>
    /\ last = NoCall
    /\ hist = [on |-> FALSE, calls |-> <<>>]
    /\ \E before \in StoresBefore :
          /\ fs = before.fs
          /\ meta = before.meta
          /\ data = before.data
          /\ running \in RacePairs(A_TXT \in DOMAIN before.meta)

\* call i goes on from pc, holding stat
GoOn(i, w, pc, stat) ==
    /\ fs' = w.fs
    /\ meta' = w.meta
    /\ data' = w.data
    /\ running' = [running EXCEPT ![i].pc = pc, ![i].stat = stat]
    /\ UNCHANGED <<cwd, root, last, hist>>

\* the promise of call i settles as r
Settle(i, r) ==
    /\ fs' = r.w.fs
    /\ meta' = r.w.meta
    /\ data' = r.w.data
    /\ running' = [running EXCEPT ![i].pc = "done", ![i].out = r.out, ![i].val = r.val,
                                  ![i].err = r.err]
    /\ UNCHANGED <<cwd, root, last, hist>>

At(i, op, pc) == i \in DOMAIN running /\ running[i].op = op /\ running[i].pc = pc

Granted(i, a, pc) ==
    IF ~a.ok THEN Settle(i, Throw(a.w, "No access")) ELSE GoOn(i, a.w, pc, running[i].stat)

\* await this.ensureAccess(uri, "w")
SaveAccess(i) ==
    /\ At(i, "saveDocument", "access")
    /\ Granted(i, ensureAccess(Now, running[i].uri, "w"), "build")

Built(i, b) == IF b.out = "throw" THEN Settle(i, b) ELSE GoOn(i, b.w, "save", running[i].stat)

\* await this._buildPath(uri)
SaveBuildPath(i) ==
    /\ At(i, "saveDocument", "build")
    /\ Built(i, buildPath(Now, running[i].uri))

SaverRan(i, r) ==
    IF r.out = "throw" \/ r.val = Bool(FALSE) THEN Settle(i, r)
    ELSE GoOn(i, r.w, "stat", running[i].stat)

\* the saver writes the file; statDocument is called and awaits resolve
SaveWrite(i) ==
    /\ At(i, "saveDocument", "save")
    /\ SaverRan(i, RunSaver(Now, savers[1], NativePath(resolveSync(<<running[i].uri>>)),
                           running[i].doc))

Stated(i, st, pc) == GoOn(i, st.w, pc, st.val)

\* statDocument goes on after resolve: existsSync, statSync
SaveStat(i) ==
    /\ At(i, "saveDocument", "stat")
    /\ Stated(i, statDocument(Now, running[i].uri), "cache")

\* after await this.statDocument(uri): meta.set, data.set, return true
SaveCache(i) ==
    /\ At(i, "saveDocument", "cache")
    /\ Settle(i, Saved(Return(Now, running[i].stat), running[i].uri))

\* await this.ensureAccess(uri, "d")
DropAccess(i) ==
    /\ At(i, "dropDocument", "access")
    /\ Granted(i, ensureAccess(Now, running[i].uri, "d"), "stat")

\* the first statDocument goes on after resolve
DropStat(i) ==
    /\ At(i, "dropDocument", "stat")
    /\ Stated(i, statDocument(Now, running[i].uri), "unlink")

\* unlinkSync(path), then statDocument is called and awaits resolve
UnlinkPath(i, w, p) ==
    IF ~UnlinkOk(w.fs, p) THEN Settle(i, Throw(Touch(w, "unlink", p), "ENOENT"))
    ELSE GoOn(i, [Touch(w, "unlink", p) EXCEPT !.fs = Remove(w.fs, p)], "restat",
              running[i].stat)

\* after the first statDocument: return false, remove the directory, or unlink
DropUnlink(i) ==
    /\ At(i, "dropDocument", "unlink")
    /\ IF ~running[i].stat.exists THEN Settle(i, Return(Now, Bool(FALSE)))
       ELSE IF running[i].stat.isDirectory
       THEN Settle(i, DropDirectory(Now, resolveSync(<<running[i].uri>>),
                                    NativePath(resolveSync(<<running[i].uri>>))))
       ELSE UnlinkPath(i, Now, NativePath(resolveSync(<<running[i].uri>>)))

\* the second statDocument goes on after resolve
DropRestat(i) ==
    /\ At(i, "dropDocument", "restat")
    /\ Stated(i, statDocument(Now, running[i].uri), "uncache")

\* after the second statDocument: the caches are cleared if the file is gone
DropUncache(i) ==
    /\ At(i, "dropDocument", "uncache")
    /\ Settle(i, Unlinked(Return(Now, running[i].stat), resolveSync(<<running[i].uri>>)))

Callers == {1, 2}

NextRace ==
    \E i \in Callers :
        \/ SaveAccess(i)
        \/ SaveBuildPath(i)
        \/ SaveWrite(i)
        \/ SaveStat(i)
        \/ SaveCache(i)
        \/ DropAccess(i)
        \/ DropStat(i)
        \/ DropUnlink(i)
        \/ DropRestat(i)
        \/ DropUncache(i)

SpecRace == InitRace /\ [][NextRace]_vars

----------------------------------------------------------------------------
(* The access guard, asked about URIs of up to MaxSegs segments *)

DOTS_C == <<".", ".", "c">>
DOTS == <<".", ".", ".">>
AccessTokens == {DOTDOT, DOTS_C, DOTS, <<"a">>, Slice(LLM_CONFIG, 1)}
AccessUris == {Join(args, <<SLASH>>) : args \in UNION {[1..n -> AccessTokens] : n \in 1..MaxSegs}}

\* the promise of ensureAccess: resolved, or rejected with the error
AccessOutcome(a) ==
    IF a.ok THEN Return(a.w, Null) ELSE Throw(a.w, "No access outside of the db container")

\* the store after construction, and the URI that is asked about
InitAccess ==
    /\ cwd = <<"/", "w">>
    /\ root = <<"r">>
    /\ fs = Mkdir(Empty, FSresolve(<<cwd, root>>))
    /\ meta = Empty
    /\ data = Empty
    /\ hist = [on |-> FALSE, calls |-> <<>>]
    /\ running = <<>>
    /\ \E uri \in AccessUris : last = [NoCall EXCEPT !.op = "given", !.uri = uri]

\* ensureAccess(uri, level)
EnsureAccess(levels) ==
    /\ last.op = "given"
    /\ \E level \in levels :
          Apply("ensureAccess", last.uri, Str(<<level>>),
                AccessOutcome(ensureAccess(Now, last.uri, level)))

NextAccess == EnsureAccess(Levels)

SpecAccess == InitAccess /\ [][NextAccess]_vars

----------------------------------------------------------------------------
(* Runs of an FSDriver on the files of the root directory *)

DriverUris == {A_TXT, B_JSON}
DriverDocs == {Str(<<>>), Str(<<"A">>), Num(0), Bool(FALSE), Null}
DriverDefaults == {Str(<<"D">>)}

\* the absolute path handed to the driver
DriverPath(uri) == NativePath(resolveSync(<<uri>>))

DriverWrite(uris, docs) ==
    \E uri \in uris, doc \in docs :
        Apply("write", uri, doc, write(Now, DriverPath(uri), doc))

DriverRead(uris, defaults) ==
    \E uri \in uris, defaultValue \in defaults :
        Apply("read", uri, defaultValue, read(Now, DriverPath(uri), defaultValue))

NextDriver ==
    \/ DriverWrite(DriverUris, DriverDocs)
    \/ DriverRead(DriverUris, DriverDefaults)

SpecDriver == Init /\ [][NextDriver]_vars

----------------------------------------------------------------------------
(* save(file, data) followed by load(file), for each extension *)

MaxRows == 2
F_TXT == <<"f">> \o EXT_TXT
F_JSON == <<"f">> \o EXT_JSON
F_JSONL == <<"f">> \o EXT_JSONL
F_CSV == <<"f">> \o EXT_CSV
F_TSV == <<"f">> \o EXT_TSV

Texts == {<<>>, <<"x">>, <<"x", ",">>}
CellValues == {Num(1)} \cup {Str(t) : t \in Texts}
FlatRecords == {Obj(<<<<<<"a">>, va>>, <<<<"b">>, vb>>>>) : va \in CellValues, vb \in CellValues}
RecordLists == UNION {[1..n -> FlatRecords] : n \in 1..MaxRows}
JsonObjects == {Obj(<<>>)} \cup {Obj(<<<<<<"a">>, va>>>>) : va \in CellValues \cup {Null}}
JsonLists == UNION {[1..n -> JsonObjects] : n \in 1..MaxRows}
LineLists == UNION {[1..n -> {Str(<<"x">>), Str(<<"y">>)}] : n \in 1..MaxRows}

\* the data the round trip is promised for, by file
Representable(file) ==
    CASE file = F_TXT -> {Str(t) : t \in Texts} \cup {Arr(ls) : ls \in LineLists}
      [] file = F_JSON -> JsonObjects
      [] file = F_JSONL -> {Arr(js) : js \in JsonLists}
      [] OTHER -> {Arr(rs) : rs \in RecordLists}

CodecFiles == {F_TXT, F_JSON, F_JSONL, F_CSV, F_TSV}

InitCodec ==
    /\ cwd = <<"/", "w">>
    /\ root = <<"r">>
    /\ fs = Mkdir(Empty, FSresolve(<<cwd, root>>))
    /\ meta = Empty
    /\ data = Empty
    /\ hist = [on |-> FALSE, calls |-> <<>>]
    /\ running = <<>>
    /\ \E file \in CodecFiles : \E d \in Representable(file) :
          last = [NoCall EXCEPT !.op = "given", !.uri = file, !.arg = d]

\* save(file, data)
Save ==
    /\ last.op = "given"
    /\ Apply("save", last.uri, last.arg, FSsave(Now, RootDir \o <<last.uri>>, last.arg))

\* load(file)
Load ==
    /\ last.op = "save"
    /\ Apply("load", last.uri, last.arg, FSload(Now, RootDir \o <<last.uri>>))

NextCodec == Save \/ Load

SpecCodec == InitCodec /\ [][NextCodec]_vars

----------------------------------------------------------------------------
(* Cells of a CSV or TSV file, decoded *)

MaxCell == 3
CellChars == {"5", "4", "@", SP}
Cells == UNION {[1..n -> CellChars] : n \in 0..MaxCell}

InitCell ==
    /\ cwd = <<"/", "w">>
    /\ root = <<"r">>
    /\ fs = Mkdir(Empty, FSresolve(<<cwd, root>>))
    /\ meta = Empty
    /\ data = Empty
    /\ hist = [on |-> FALSE, calls |-> <<>>]
    /\ running = <<>>
    /\ \E cell \in Cells : last = [NoCall EXCEPT !.op = "given", !.uri = cell]

\* decodeValue(cell)
DecodeValue ==
    /\ last.op = "given"
    /\ last' = [last EXCEPT !.op = "decodeValue", !.val = decodeValue(last.uri)]
    /\ UNCHANGED <<cwd, root, fs, meta, data, hist, running>>

NextCell == DecodeValue

SpecCell == InitCell /\ [][NextCell]_vars

----------------------------------------------------------------------------
(* Properties *)

TypeOK ==
    /\ last.out \in {"ret", "throw"}
    /\ \A p \in DOMAIN fs : fs[p].kind \in {"dir", "file"}
    /\ DOMAIN meta = DOMAIN data

\* the native path of the document a URI names
DocPath(uri) == NativePath(resolveSync(<<uri>>))

\* ensureAccess(uri) returns
AccessGranted(uri) == ensureAccess(Now, uri, "r").ok

GuardedOps == {"saveDocument", "writeDocument", "loadDocument", "dropDocument"}

NativeCalls == {"exists", "stat", "mkdir", "readFile", "writeFile", "appendFile",
                "unlink", "rmdir", "readdir"}

\* the calls recorded so far, and the latest of them
Calls == hist.calls
Latest(n) == n = Len(Calls)

ReturnedTrue(c) == c.out = "ret" /\ c.val = Bool(TRUE)

\* C1: for every URI that ensureAccess accepts, the native paths that
\* saveDocument, writeDocument, loadDocument, dropDocument and statDocument
\* hand to the filesystem lie inside resolve(cwd, root), and no file or
\* directory ever exists outside that directory (other than its ancestors)
C1_StaysInsideRoot ==
    /\ last.op \in GuardedOps \cup {"statDocument"}
          => \A p \in last.touched : Inside(p, RootDir)
    /\ \A p \in DOMAIN fs : Inside(p, RootDir) \/ Inside(RootDir, p)

\* C2: in every public operation (saveDocument, writeDocument, loadDocument,
\* dropDocument, statDocument, listDir) ensureAccess has returned before the
\* first native filesystem call
C2_AccessComesFirst ==
    \A i \in DOMAIN last.log :
        last.log[i] \in NativeCalls => \E j \in 1..(i - 1) : last.log[j] = "ensureAccess"

\* C2, amended: in saveDocument, writeDocument, loadDocument and dropDocument
\* ensureAccess has returned before the first native filesystem call
C2_GuardedOpsCheckFirst ==
    last.op \in GuardedOps =>
        \A i \in DOMAIN last.log :
            last.log[i] \in NativeCalls
                => \E j \in 1..(i - 1) : last.log[j] = "ensureAccess"

\* a state after a dropDocument that was granted access and removed a file
C2_Witness ==
    /\ last.op = "dropDocument"
    /\ ReturnedTrue(last)
    /\ last.log[1] = "ensureAccess"
    /\ \E i \in DOMAIN last.log : last.log[i] = "unlink"

\* C3: when ensureAccess throws for the URI of a saveDocument, writeDocument,
\* loadDocument or dropDocument call, the call rejects with that error, makes
\* no native call, and leaves the filesystem, meta and data as they were
C3_DeniedCallHasNoEffect ==
    [][(last'.op \in GuardedOps /\ ~AccessGranted(last'.uri))
          => /\ last'.out = "throw"
             /\ last'.err = "No access"
             /\ last'.touched = {}
             /\ fs' = fs
             /\ meta' = meta
             /\ data' = data]_vars

\* a state after a denied saveDocument on a store that holds a cached document
C3_Witness ==
    /\ last.op = "saveDocument"
    /\ last.err = "No access"
    /\ DOMAIN meta # {}

\* C4: after saveDocument(u, d) on a '.json' URI returned true, however many
\* saves came before it, the loadDocument(u) that follows returns a value
\* equal to d
C4_JsonLoadsLastSave ==
    \A n \in 2..Len(Calls) :
        (/\ Calls[n].op = "loadDocument"
         /\ Calls[n - 1].op = "saveDocument"
         /\ Calls[n - 1].uri = Calls[n].uri
         /\ ReturnedTrue(Calls[n - 1]))
            => Calls[n].out = "ret" /\ Calls[n].val = Calls[n - 1].arg

\* C4, amended: the loadDocument(u) that follows a saveDocument(u, d) that
\* returned true on a '.json' URI returns d, or, when d is a string that
\* starts with "{" and ends with "}" (or "[" and "]") and parses as JSON, the
\* value d parses to
C4_JsonLoadsLastSaveParsed ==
    \A n \in 2..Len(Calls) :
        (/\ Calls[n].op = "loadDocument"
         /\ Calls[n - 1].op = "saveDocument"
         /\ Calls[n - 1].uri = Calls[n].uri
         /\ ReturnedTrue(Calls[n - 1]))
            => /\ Calls[n].out = "ret"
               /\ Calls[n].val = IF Calls[n - 1].arg = Str(<<"{", "}">>)
                                 THEN Obj(<<>>)
                                 ELSE Calls[n - 1].arg

\* a recorded run of two saves of different documents and a load that
\* returned the second
C4_Witness ==
    /\ Len(Calls) = 3
    /\ Calls[1].op = "saveDocument" /\ Calls[1].arg = Obj(<< <<<<"k">>, Num(1)>> >>)
    /\ Calls[2].op = "saveDocument" /\ Calls[2].arg = Arr(<<Num(1), Str(<<"A">>)>>)
    /\ Calls[3].op = "loadDocument" /\ Calls[3].val = Arr(<<Num(1), Str(<<"A">>)>>)

\* C5: when saveDocument(uri, document) returns true, meta has an entry under
\* uri with exists and isFile, data has the entry false under uri, and every
\* parent directory of the document exists
C5_SavedIsCached ==
    (last.op = "saveDocument" /\ ReturnedTrue(last))
        => /\ last.uri \in DOMAIN meta
           /\ meta[last.uri].exists
           /\ meta[last.uri].isFile
           /\ last.uri \in DOMAIN data
           /\ data[last.uri] = Bool(FALSE)
           /\ \A q \in Prefixes(ParentOf(DocPath(last.uri))) : IsDir(fs, q)

\* a state after saveDocument("d/./a.txt") returned true: the directory d was
\* created by the call or before it
C5_Witness ==
    /\ last.op = "saveDocument"
    /\ ReturnedTrue(last)
    /\ last.uri = D_DOT_A_TXT

\* C6: loadDocument(uri, defaultValue) on a URI that ensureAccess accepts and
\* whose file does not exist returns defaultValue, does not throw, calls no
\* loader and changes nothing
C6_MissingLoadsDefault ==
    [][(last'.op = "loadDocument" /\ AccessGranted(last'.uri)
                                  /\ ~existsSync(fs, DocPath(last'.uri)))
          => /\ last'.out = "ret"
             /\ last'.val = last'.arg
             /\ \A i \in DOMAIN last'.log : last'.log[i] # "loader"
             /\ fs' = fs]_vars

\* a state after loadDocument("a.txt", null) returned null for a missing file
C6_Witness ==
    /\ last.op = "loadDocument"
    /\ last.uri = A_TXT
    /\ last.arg = Null
    /\ last.out = "ret"
    /\ last.val = Null
    /\ ~existsSync(fs, DocPath(A_TXT))

\* C7: dropDocument(uri) on a URI that ensureAccess accepts and that does not
\* exist returns false, does not throw and leaves the filesystem as it was;
\* the dropDocument that follows a dropDocument of the same URI that returned
\* true returns false
C7_DropOfMissing ==
    [][/\ (last'.op = "dropDocument" /\ AccessGranted(last'.uri)
                                     /\ ~existsSync(fs, DocPath(last'.uri)))
            => last'.out = "ret" /\ last'.val = Bool(FALSE) /\ fs' = fs
       /\ (/\ last.op = "dropDocument" /\ ReturnedTrue(last)
           /\ last'.op = "dropDocument" /\ last'.uri = last.uri)
            => last'.out = "ret" /\ last'.val = Bool(FALSE)]_vars

\* a recorded run in which dropDocument returned true and, called again on
\* the same URI, false
C7_Witness ==
    \E n \in 2..Len(Calls) :
        /\ Calls[n - 1].op = "dropDocument" /\ ReturnedTrue(Calls[n - 1])
        /\ Calls[n].op = "dropDocument" /\ Calls[n].uri = Calls[n - 1].uri
        /\ Calls[n].out = "ret" /\ Calls[n].val = Bool(FALSE)

\* C8: right after saveDocument(u, d) and then dropDocument(u) with the same
\* string u returned true, neither meta nor data has an entry under a
\* spelling of that document
C8_DroppedLeavesNoEntry ==
    \A n \in 2..Len(Calls) :
        (/\ Latest(n)
         /\ Calls[n - 1].op = "saveDocument" /\ ReturnedTrue(Calls[n - 1])
         /\ Calls[n].op = "dropDocument" /\ Calls[n].uri = Calls[n - 1].uri
         /\ ReturnedTrue(Calls[n]))
            => \A k \in (DOMAIN meta) \cup (DOMAIN data) : DocPath(k) # DocPath(Calls[n].uri)

\* C9: dropDocument on a directory that contains files throws and removes
\* nothing; on a directory that dropDocument calls have emptied it removes
\* the directory and returns true
C9_DirectoryDrop ==
    [][(last'.op = "dropDocument" /\ IsDir(fs, DocPath(last'.uri)))
          => IF Children(fs, DocPath(last'.uri)) # {}
             THEN last'.out = "throw" /\ fs' = fs
             ELSE ReturnedTrue(last') /\ ~existsSync(fs', DocPath(last'.uri))]_vars

RECURSIVE Chunks(_, _)
\* the chunks of the first n recorded calls, concatenated
Chunks(calls, n) == IF n = 0 THEN <<>> ELSE Chunks(calls, n - 1) \o calls[n].arg.s

\* C10: when a run on a store without the file starts with writeDocument(u, c1),
\* ..., writeDocument(u, cn) on a '.txt' URI u, each returning true, the
\* loadDocument(u) that follows returns c1 c2 ... cn concatenated in call order
C10_AppendsConcatenate ==
    \A n \in 2..Len(Calls) :
        (/\ Calls[n].op = "loadDocument"
         /\ \A i \in 1..(n - 1) : /\ Calls[i].op = "writeDocument"
                                  /\ Calls[i].uri = Calls[n].uri
                                  /\ ReturnedTrue(Calls[i]))
            => Calls[n].out = "ret" /\ Calls[n].val = Str(Chunks(Calls, n - 1))

\* a recorded run writeDocument("d/a.txt", "A"), writeDocument("d/a.txt", "B"),
\* loadDocument("d/a.txt") that returned "AB"
C10_Witness ==
    /\ Len(Calls) = 3
    /\ Calls[1].op = "writeDocument" /\ Calls[1].uri = D_A_TXT /\ Calls[1].arg = Str(<<"A">>)
    /\ Calls[2].op = "writeDocument" /\ Calls[2].uri = D_A_TXT /\ Calls[2].arg = Str(<<"B">>)
    /\ Calls[3].op = "loadDocument" /\ Calls[3].uri = D_A_TXT
    /\ Calls[3].val = Str(<<"A", "B">>)

\* does the cached stat m describe the native state of the document uri
AgreesWithNative(f, m, uri) ==
    IF existsSync(f, DocPath(uri)) THEN m = createDocumentStatFrom(f, DocPath(uri))
    ELSE ~m.exists

\* C11: when meta[u] disagrees with the native state of u, the next
\* saveDocument, writeDocument, loadDocument or dropDocument on u that
\* returns leaves meta[u] in agreement with the native state or removes it
C11_MetaIsCorrected ==
    [][(/\ last'.op \in GuardedOps
        /\ last'.out = "ret"
        /\ last'.uri \in DOMAIN meta
        /\ ~AgreesWithNative(fs, meta[last'.uri], last'.uri))
          => \/ last'.uri \notin DOMAIN meta'
             \/ AgreesWithNative(fs', meta'[last'.uri], last'.uri)]_vars

\* C12: starting from empty caches, after any sequence of saveDocument,
\* loadDocument, writeDocument, dropDocument and statDocument calls every
\* entry of data holds false
C12_DataHoldsSentinel ==
    \A k \in DOMAIN data : data[k] = Bool(FALSE)

\* a state in which a document that data has an entry for was just loaded
\* with its content
C12_Witness ==
    /\ last.op = "loadDocument"
    /\ last.uri \in DOMAIN data
    /\ last.out = "ret"
    /\ last.val = Str(<<"A">>)

\* C13: statDocument(uri) never throws and reports the native state whatever
\* meta holds: a stat with exists = FALSE and an error for an absent path, the
\* stat built from a fresh statSync for a present one, and a stat carrying the
\* error when statSync throws
C13_StatIsFresh ==
    last.op = "statDocument" =>
        /\ last.out = "ret"
        /\ IF ~existsSync(fs, DocPath(last.uri))
           THEN ~last.val.exists /\ last.val.error = "Document not found"
           ELSE IF last.arg.fault # "none"
           THEN ~last.val.exists /\ last.val.error = last.arg.fault
           ELSE last.val = createDocumentStatFrom(fs, DocPath(last.uri))

\* a state after statDocument returned the native stat of a file while meta
\* holds an older stat of it
C13_Witness ==
    /\ last.op = "statDocument"
    /\ last.uri \in DOMAIN meta
    /\ last.val.exists
    /\ meta[last.uri].exists
    /\ meta[last.uri].size # last.val.size

\* the names of the entries listDir returned, and the native path of one
ListedNames == [i \in DOMAIN last.val.items |-> last.val.items[i].name]
ListedPath(name) == Append(NativePath(last.uri), name)

\* C14: in the array listDir returns, with skipStat false or true, every
\* entry that is a directory comes before every entry that is a file, and
\* entries of the same kind keep the order of the native listing
C14_DirectoriesFirst ==
    (last.op = "listDir" /\ last.out = "ret") =>
        /\ \A i, j \in DOMAIN ListedNames :
              (IsFile(fs, ListedPath(ListedNames[i])) /\ IsDir(fs, ListedPath(ListedNames[j])))
                  => j < i
        /\ SelectSeq(ListedNames, LAMBDA n : IsDir(fs, ListedPath(n)))
              = SelectSeq(last.arg.names, LAMBDA n : IsDir(fs, ListedPath(n)))
        /\ SelectSeq(ListedNames, LAMBDA n : IsFile(fs, ListedPath(n)))
              = SelectSeq(last.arg.names, LAMBDA n : IsFile(fs, ListedPath(n)))

\* C15: every DocumentEntry listDir(uri) returns has as path the URI of the
\* entry relative to the root of the store
C15_PathsRelativeToRoot ==
    (last.op = "listDir" /\ last.out = "ret") =>
        \A i \in DOMAIN last.val.items :
            last.val.items[i].path = FSrelative(RootDir, ListedPath(last.val.items[i].name))

\* C16: readDir(uri) on a directory that does not exist, for a URI that
\* ensureAccess accepts, returns without throwing and yields no entry.
C16_MissingDirYieldsNothing ==
    (last.op = "readDir" /\ AccessGranted(last.uri) /\ ~existsSync(fs, NativePath(last.uri)))
        => (last.out = "ret" /\ last.val = Arr(<<>>))

\* readDir was called on a directory that is missing, next to files that exist
C16_Witness ==
    /\ last.op = "readDir" /\ last.out = "ret"
    /\ AccessGranted(last.uri)
    /\ ~existsSync(fs, NativePath(last.uri))
    /\ IsFile(fs, NativePath(A_TXT))
    /\ "readdir" \in {last.log[i] : i \in DOMAIN last.log}

\* the native path of a yielded entry, and how many directories lie between
\* the directory that was read and the entry
Loc(e) == FSresolve(<<cwd, e.path>>)
Nesting(p) == Len(p) - Len(NativePath(last.uri)) - 1
ReadItems == last.val.items

\* the files of the store at most depth directories below the directory read
FilesWithin(depth) ==
    {p \in DOMAIN fs : /\ IsFile(fs, p)
                       /\ Inside(p, NativePath(last.uri))
                       /\ Nesting(p) \in 0..depth}

CharCodes == <<".", "/", "a", "b", "d", "j", "n", "o", "s", "t", "x">>
CharCode(c) == CHOOSE i \in DOMAIN CharCodes : CharCodes[i] = c

RECURSIVE LexLeq(_, _)
\* a <= b, as strings
LexLeq(a, b) ==
    IF a = <<>> THEN TRUE
    ELSE IF b = <<>> THEN FALSE
    ELSE IF Head(a) = Head(b) THEN LexLeq(Tail(a), Tail(b))
    ELSE CharCode(Head(a)) < CharCode(Head(b))

\* entry a may come before entry b under the key
KeyLeq(a, b, sort) ==
    IF sort = "name" THEN LexLeq(a.name, b.name) ELSE a.stat.size <= b.stat.size

FoundItems == last.val.items

\* the files under the directory that was scanned
FilesUnder == {p \in DOMAIN fs : IsFile(fs, p) /\ Inside(p, NativePath(last.uri))}

SegmentsOf(u) ==
    Split(IF EndsWith(u, <<SLASH>>) THEN SubSeq(u, 1, Len(u) - 1) ELSE u, SLASH)

NoEmptyOrDotSegment(u) ==
    \A i \in DOMAIN SegmentsOf(u) : SegmentsOf(u)[i] # <<>> /\ SegmentsOf(u)[i] # DOT

Normalized == last.val.s

\* C19 (as stated): normalize(normalize(u)) = normalize(u); the result has
\* no empty or "." segment and no leading "/", and it ends with "/" exactly
\* when u does.
C19_NormalizeIsIdempotent ==
    last.op = "normalize" =>
        /\ normalize(<<Normalized>>) = Normalized
        /\ NoEmptyOrDotSegment(Normalized)
        /\ ~StartsWith(Normalized, <<SLASH>>)
        /\ EndsWith(Normalized, <<SLASH>>) <=> EndsWith(last.uri, <<SLASH>>)

\* C19 (amended): normalize(normalize(u)) = normalize(u) and the result has
\* no leading "/"; the result is "." when no segment is left, and otherwise
\* it has no empty or "." segment and ends with "/" exactly when u does.
C19_NormalizeIsIdempotentOrDot ==
    last.op = "normalize" =>
        /\ normalize(<<Normalized>>) = Normalized
        /\ ~StartsWith(Normalized, <<SLASH>>)
        /\ \/ Normalized = DOT
           \/ /\ NoEmptyOrDotSegment(Normalized)
              /\ EndsWith(Normalized, <<SLASH>>) <=> EndsWith(last.uri, <<SLASH>>)

\* a URI with a leading and a trailing "/" was normalized to a directory URI
C19_Witness ==
    /\ last.op = "normalize"
    /\ StartsWith(last.uri, <<SLASH>>) /\ EndsWith(last.uri, <<SLASH>>)
    /\ Normalized # DOT /\ Normalized # last.uri
    /\ EndsWith(Normalized, <<SLASH>>)

Resolved == last.val.s

\* C20: resolve and resolveSync return no path with a ".." segment; ".."
\* that would climb above the root is dropped: resolve("..", "a") is "a",
\* resolve("../..", "a", "b") is "a/b" and resolveSync("../..") is ".".
C20_NoParentSegment ==
    (last.op \in {"resolve", "resolveSync"}) =>
        /\ \A i \in DOMAIN SegmentsOf(Resolved) : SegmentsOf(Resolved)[i] # DOTDOT
        /\ (last.op = "resolve" /\ last.arg.args = <<DOTDOT, <<"a">>>>) => Resolved = <<"a">>
        /\ (last.op = "resolve" /\ last.arg.args = <<UP_UP, <<"a">>, <<"b">>>>)
              => Resolved = <<"a", "/", "b">>
        /\ (last.op = "resolveSync" /\ last.uri = UP_UP) => Resolved = DOT

\* a path that climbs twice above the root was resolved
C20_Witness ==
    /\ last.op = "resolve"
    /\ last.arg.args = <<UP_UP, <<"a">>, <<"b">>>>
    /\ Resolved = <<"a", "/", "b">>

\* resolve(cwd, root, u), a leading "/" of u meaning the virtual root
VirtualPath(u) == NativePath(IF StartsWith(u, <<SLASH>>) THEN Slice(u, 1) ELSE u)

\* C21: location(u) is the native path resolve(cwd, root, u), a leading "/"
\* of u meaning the virtual root, whether cwd is absolute or relative, and
\* saveDocument(u), loadDocument(u) and statDocument(u) write and read the
\* file at that path.
C21_LocationIsWhereDocumentsLive ==
    /\ last.op = "location" => last.val.p = VirtualPath(last.uri)
    /\ (last.op \in {"saveDocument", "loadDocument", "statDocument"} /\ last.out = "ret")
          => location(<<last.uri>>) \in last.touched

\* what the i-th handler of the chain returns for the document of uri
LoaderResult(chain, i, uri) == RunLoader(Now, chain[i], DocPath(uri), extname(uri)).val
Accepts(chain, i, uri) == LoaderResult(chain, i, uri) # Bool(FALSE)
Saves(chain, i) == chain[i] # "decline"

\* the handlers a call ran, from its log
LoaderRuns(log) == Len(SelectSeq(log, LAMBDA e : e = "loader"))
SaverRuns(log) == SelectSeq(log, LAMBDA e : e \in {"save", "decline"})

\* C22: loadDocument on an existing file runs the loaders in registration
\* order up to the first whose result is not false and returns that result;
\* saveDocument runs the savers up to the first whose result is not false
\* and returns true; when every handler returns false the call returns
\* false, and saveDocument leaves meta and data as they were.
C22_FirstHandlerWins ==
    [][/\ (/\ last'.op = "loadDocument" /\ last'.out = "ret"
           /\ existsSync(fs, DocPath(last'.uri)))
             => \/ \E k \in DOMAIN last'.arg.chain :
                     /\ Accepts(last'.arg.chain, k, last'.uri)
                     /\ \A i \in 1..(k - 1) : ~Accepts(last'.arg.chain, i, last'.uri)
                     /\ LoaderRuns(last'.log) = k
                     /\ last'.val = LoaderResult(last'.arg.chain, k, last'.uri)
                \/ /\ \A i \in DOMAIN last'.arg.chain : ~Accepts(last'.arg.chain, i, last'.uri)
                   /\ LoaderRuns(last'.log) = Len(last'.arg.chain)
                   /\ last'.val = Bool(FALSE)
       /\ (last'.op = "saveDocument" /\ last'.out = "ret")
             => \/ \E k \in DOMAIN last'.arg.chain :
                     /\ Saves(last'.arg.chain, k)
                     /\ SaverRuns(last'.log) = SubSeq(last'.arg.chain, 1, k)
                     /\ \A i \in 1..(k - 1) : ~Saves(last'.arg.chain, i)
                     /\ last'.val = Bool(TRUE)
                \/ /\ \A i \in DOMAIN last'.arg.chain : ~Saves(last'.arg.chain, i)
                   /\ SaverRuns(last'.log) = last'.arg.chain
                   /\ last'.val = Bool(FALSE)
                   /\ meta' = meta /\ data' = data]_vars

\* a load whose first loader declined and whose second returned the text,
\* the third never running
C22_Witness ==
    /\ last.op = "loadDocument" /\ last.out = "ret" /\ last.uri = A_TXT
    /\ last.arg.chain = <<"decline">> \o loaders
    /\ last.val = Str(<<"A">>)
    /\ LoaderRuns(last.log) = 2

\* a save that every saver declined
C22_WitnessDeclined ==
    /\ last.op = "saveDocument" /\ last.out = "ret" /\ last.val = Bool(FALSE)
    /\ last.arg.chain = <<"decline", "decline">>
    /\ last.uri \notin DOMAIN meta

\* every character of the text is a digit, and there is at least one
Numeric(s) == s # <<>> /\ \A i \in DOMAIN s : IsDigit(s[i])

\* C30: decoding turns a cell into a number only when the whole trimmed
\* cell is numeric; any other cell stays the trimmed text it was, and no
\* decoded cell is NaN.
C30_NumberOnlyWhenWholeCellNumeric ==
    last.op = "decodeValue"
        => /\ last.val # NaN
           /\ last.val.t = "num" => Numeric(Trim(last.uri))
           /\ ~Numeric(Trim(last.uri)) => last.val = Str(Trim(last.uri))

\* the file parses: load(file) returns
Loadable(p) == FSload(Now, p).out = "ret"

\* C24: read returns the default only when the file is missing or cannot
\* be loaded; for a file that exists and parses it returns the parsed
\* content, empty text, 0, false and null included.
C24_DefaultOnlyWhenNotLoaded ==
    last.op = "read"
        => last.val = IF Loadable(DriverPath(last.uri))
                      THEN FSload(Now, DriverPath(last.uri)).val
                      ELSE last.arg

RECURSIVE Climbs(_, _)
\* walking the segments from depth d steps above the directory it began in
Climbs(segs, d) ==
    IF segs = <<>> THEN FALSE
    ELSE IF Head(segs) = DOTDOT THEN d = 0 \/ Climbs(Tail(segs), d - 1)
    ELSE IF Head(segs) \in {<<>>, DOT} THEN Climbs(Tail(segs), d)
    ELSE Climbs(Tail(segs), d + 1)

\* the URI leaves the virtual root
LeavesRoot(uri) == Climbs(Split(uri, SLASH), 0)

\* C25: for every level ensureAccess grants a URI that stays inside the
\* virtual root, one whose first segment merely begins with two dots
\* included, and rejects a URI that leaves the root with "No access outside
\* of the db container" unless it ends with "/llm.config.js".
C25_RejectsOnlyWhatLeavesRoot ==
    last.op = "ensureAccess"
        => IF LeavesRoot(last.uri) /\ ~EndsWith(last.uri, LLM_CONFIG)
           THEN last.out = "throw" /\ last.err = "No access outside of the db container"
           ELSE last.out = "ret"

\* the entries of cache after that cache before lacks or holds differently
Gained(before, after) ==
    {u \in DOMAIN after : u \notin DOMAIN before \/ after[u] # before[u]}

\* the entries of cache before that cache after lacks
Lost(before, after) == (DOMAIN before) \ (DOMAIN after)

\* C29: loadDocument, statDocument, writeDocument and listDir leave meta and
\* data as they were; loadDocument, statDocument and listDir leave the
\* filesystem as it was; an entry is added or updated only by saveDocument
\* and removed only by dropDocument.
C29_FrameEffects ==
    [][/\ last'.op \in {"loadDocument", "statDocument", "writeDocument", "listDir"}
             => meta' = meta /\ data' = data
       /\ last'.op \in {"loadDocument", "statDocument", "listDir"} => fs' = fs
       /\ (Gained(meta, meta') # {} \/ Gained(data, data') # {})
             => last'.op = "saveDocument"
       /\ (Lost(meta, meta') # {} \/ Lost(data, data') # {})
             => last'.op = "dropDocument"]_vars

\* a writeDocument that appended to a cached document, whose cached size is
\* still the size that saveDocument saw
C29_Witness ==
    /\ last.op = "writeDocument" /\ ReturnedTrue(last)
    /\ last.uri \in DOMAIN meta
    /\ meta[last.uri].size < Len(fs[DocPath(last.uri)].content)

\* C23: for every supported extension, load after save returns a value
\* equal to the data saved, for the data the extension represents: objects
\* for .json, arrays of objects for .jsonl, arrays of flat records for .csv
\* and .tsv (a record with an empty last cell included), strings and arrays
\* of lines for .txt.
C23_LoadReturnsWhatWasSaved ==
    last.op = "load" => last.out = "ret" /\ last.val = last.arg

\* both calls have settled
BothSettled == running # <<>> /\ \A i \in DOMAIN running : running[i].pc = "done"

Ops(a, b) == running # <<>> /\ running[1].op = a /\ running[2].op = b

\* the call returned v
Gave(c, v) == c.out = "ret" /\ c.val = v

StatOfWritten(text) ==
    createDocumentStatFrom(WriteFile(fs, DocPath(A_TXT), text), DocPath(A_TXT))

C27_OneDropWinsNoneThrows ==
    (BothSettled /\ Ops("dropDocument", "dropDocument") /\ running[1].existed)
        => /\ \A i \in DOMAIN running : running[i].out = "ret"
           /\ ~existsSync(fs, DocPath(A_TXT))
           /\ \E i \in DOMAIN running :
                 /\ Gave(running[i], Bool(TRUE))
                 /\ \A j \in DOMAIN running \ {i} : Gave(running[j], Bool(FALSE))

====
